---------------------------- MODULE Spec2Model ----------------------------
(***************************************************************************)
(* A model of the MIPS assembler core (src/src/assembler.c and the tables  *)
(* it uses): segment cursors and images, the symbol table with its         *)
(* deferred-instruction lists, the grammar driver at the granularity of    *)
(* one source line per step, the encoders, and the end-of-input replay.    *)
(*                                                                         *)
(* 32-bit quantities (offset_t, instruction_t, immediates) are pairs       *)
(* <<hi, lo>> of 16-bit halves, so that wrap-around arithmetic is exact.   *)
(***************************************************************************)
EXTENDS Integers, Sequences, FiniteSets, TLC

(***************************************************************************)
(* 32-bit unsigned arithmetic on <<hi16, lo16>>                            *)
(***************************************************************************)
W16 == 65536

FromNat(n) == <<(n \div W16) % W16, n % W16>>

\* valid while the value is below 2^31
ToNat(x) == x[1] * W16 + x[2]

Add32(x, y) ==
    LET lo == x[2] + y[2]
    IN  <<(x[1] + y[1] + (lo \div W16)) % W16, lo % W16>>

Neg32(x) == Add32(<<W16 - 1 - x[1], W16 - 1 - x[2]>>, <<0, 1>>)

Sub32(x, y) == Add32(x, Neg32(y))

Gt32(x, y) == x[1] > y[1] \/ (x[1] = y[1] /\ x[2] > y[2])

\* x > n for a 32-bit x and a small natural n
Gt32Nat(x, n) == x[1] >= 32768 \/ ToNat(x) > n

\* logical x >> n, 0 <= n <= 16
Shr32(x, n) ==
    LET p == 2 ^ n
    IN  <<x[1] \div p, ((x[2] \div p) + (x[1] % p) * (W16 \div p)) % W16>>

\* 1 << n, 0 <= n <= 31
Shl1(n) == IF n < 16 THEN <<0, 2 ^ n>> ELSE <<2 ^ (n - 16), 0>>

\* x & ((1 << n) - 1), 0 <= n <= 31
LowBits(x, n) == IF n <= 16 THEN <<0, x[2] % (2 ^ n)>> ELSE <<x[1] % (2 ^ (n - 16)), x[2]>>

\* a variant that takes bit 15 as set
Top17_bit15_set(x) == x[1] * 2 + 1

\* (x >> 15) & 0x1FFFF : the top 17 bits
Top17(x) == x[1] * 2 + (x[2] \div 32768)

(***************************************************************************)
(* Segments                                                                *)
(***************************************************************************)
SEGMENT_TEXT == 0
SEGMENT_DATA == 1
SEGMENT_KTEXT == 2
SEGMENT_KDATA == 3
MAX_SEGMENTS == 4

Segments == 0 .. (MAX_SEGMENTS - 1)

SEGMENT_OFFSET_BASE ==
    [s \in Segments |->
        CASE s = SEGMENT_TEXT  -> <<64, 0>>        \* 0x00400000
          [] s = SEGMENT_DATA  -> <<4097, 0>>      \* 0x10010000
          [] s = SEGMENT_KTEXT -> <<32768, 0>>     \* 0x80000000
          [] OTHER             -> <<36864, 0>>]    \* 0x90000000

SEGMENT_OFFSET_LIMIT ==
    [s \in Segments |->
        CASE s = SEGMENT_TEXT  -> <<4095, 65535>>   \* 0x0FFFFFFF
          [] s = SEGMENT_DATA  -> <<32767, 65535>>  \* 0x7FFFFFFF
          [] s = SEGMENT_KTEXT -> <<36863, 65535>>  \* 0x8FFFFFFF
          [] OTHER             -> <<65534, 65535>>] \* 0xFFFEFFFF

\* realloc step of write_segment_memory
MEM_CHUNK == 1024

SYMBOL_UNDEFINED == 0
SYMBOL_DEFINED == 1
SYMBOL_DOUBLY == 2

ASSEMBLER_STATUS_NULL == 0
ASSEMBLER_STATUS_OK == 1
ASSEMBLER_STATUS_FAIL == 2

(***************************************************************************)
(* Segment cursor and image operations.  `a' is the assembler structure as *)
(* a record; every operation returns the updated record.                   *)
(***************************************************************************)
incr_segment_offset(a, offset) ==
    LET next_offset == Add32(a.segment_offset[a.segment], offset)
        st == IF Gt32(next_offset, SEGMENT_OFFSET_LIMIT[a.segment])
              THEN ASSEMBLER_STATUS_FAIL ELSE a.status
    IN  [a EXCEPT !.status = st,
                  !.overflow = @ \/ Gt32(next_offset, SEGMENT_OFFSET_LIMIT[a.segment]),
                  !.segment_offset[a.segment] = next_offset]

align_segment_offset(a, n) ==
    IF n >= 31 THEN a
    ELSE LET dividend == Shl1(n)
             remainder == LowBits(a.segment_offset[a.segment], n)
         IN  IF remainder # <<0, 0>>
             THEN [a EXCEPT !.segment_offset[a.segment] = Add32(@, Sub32(dividend, remainder))]
             ELSE a

\* the body of write_segment_memory once the offsets into the buffer are known.
\* The buffer grows by one chunk at most; a copy that does not fit the (grown)
\* buffer is outside the allocation: it is recorded in `ub' and leaves the
\* image as it was.
CopyAt(a, bytes, buf_offset, next_offset) ==
    LET segment == a.segment
        size == Len(bytes)
        cap == IF Gt32Nat(next_offset, a.segment_memory_size[segment])
               THEN a.segment_memory_size[segment] + MEM_CHUNK
               ELSE a.segment_memory_size[segment]
        fits == buf_offset[1] < 32768 /\ ToNat(buf_offset) + size <= cap
        old == a.segment_memory[segment]
    IN  [a EXCEPT !.segment_memory_size[segment] = cap,
                  !.segment_memory[segment] =
                      IF fits
                      THEN [o \in DOMAIN old \cup
                                     {ToNat(buf_offset) + i - 1 : i \in 1 .. size} |->
                              IF o >= ToNat(buf_offset) /\ o < ToNat(buf_offset) + size
                              THEN bytes[o - ToNat(buf_offset) + 1] ELSE old[o]]
                      ELSE old,
                  !.segment_memory_offset[segment] =
                      IF Gt32(next_offset, @) THEN next_offset ELSE @,
                  !.ub = @ \/ ~fits,
                  !.writes = Append(@, [seg |-> segment, addr |-> a.segment_offset[segment],
                                        bytes |-> bytes])]

\* a variant that copies into the image of the text segment whatever the
\* active segment is
write_segment_memory_text(a, bytes) ==
    LET buf_offset == Sub32(a.segment_offset[a.segment], SEGMENT_OFFSET_BASE[a.segment])
    IN  [CopyAt([a EXCEPT !.segment = SEGMENT_TEXT], bytes, buf_offset,
                Add32(buf_offset, FromNat(Len(bytes))))
           EXCEPT !.segment = a.segment]

\* memcpy of `bytes' at the cursor
write_segment_memory(a, bytes) ==
    LET buf_offset == Sub32(a.segment_offset[a.segment], SEGMENT_OFFSET_BASE[a.segment])
    IN  CopyAt(a, bytes, buf_offset, Add32(buf_offset, FromNat(Len(bytes))))

\* the bytes of a 32-bit value in (little-endian) host order
WordBytes(w) == <<w[2] % 256, w[2] \div 256, w[1] % 256, w[1] \div 256>>

write_instruction(a, instruction) ==
    incr_segment_offset(write_segment_memory(a, WordBytes(instruction)), <<0, 4>>)

(***************************************************************************)
(* Operands and instruction words                                          *)
(***************************************************************************)
OPERAND_LABEL == "label"
OPERAND_IMMEDIATE == "immediate"
OPERAND_REGISTER == "register"
OPERAND_ADDRESS == "address"
OPERAND_STRING == "string"
OPERAND_REPEAT == "repeat"
OPERAND_OPTIONAL == "optional"

\* struct operand_node: every operand carries all fields
Reg(r) == [operand |-> OPERAND_REGISTER, reg |-> r, integer |-> <<0, 0>>, identifier |-> "",
           chars |-> <<>>]
Imm(v) == [operand |-> OPERAND_IMMEDIATE, reg |-> 0, integer |-> v, identifier |-> "",
           chars |-> <<>>]
Lab(k) == [operand |-> OPERAND_LABEL, reg |-> 0, integer |-> <<0, 0>>, identifier |-> k,
           chars |-> <<>>]
Addr(v, r) == [operand |-> OPERAND_ADDRESS, reg |-> r, integer |-> v, identifier |-> "",
              chars |-> <<>>]
\* the text of a string operand is kept as its character codes
Str(cs) == [operand |-> OPERAND_STRING, reg |-> 0, integer |-> <<0, 0>>, identifier |-> "",
            chars |-> cs]

\* op, rs, rt, rd, shamt, funct are naturals; the macro masks each field
CREATE_INSTRUCTION_R(op, rs, rt, rd, shamt, funct) ==
    <<(op % 64) * 1024 + (rs % 32) * 32 + (rt % 32),
      (rd % 32) * 2048 + (shamt % 32) * 64 + (funct % 64)>>

\* imm is a 32-bit value; the macro keeps its low 16 bits
CREATE_INSTRUCTION_I(op, rs, rt, imm) ==
    <<(op % 64) * 1024 + (rs % 32) * 32 + (rt % 32), imm[2]>>

\* address is a 32-bit value; the macro keeps its low 26 bits
CREATE_INSTRUCTION_J(op, address) ==
    <<(op % 64) * 1024 + (address[1] % 1024), address[2]>>

(***************************************************************************)
(* The opcode table (opcode.c): one descriptor per mnemonic or directive   *)
(***************************************************************************)
OPTYPE_DEFAULT == 0
OPTYPE_PSUEDO == 1
OPTYPE_DIRECTIVE == 2

OPFORMAT_NONE == <<{}, {}, {}>>
OPFORMAT_R_TYPE == <<{OPERAND_REGISTER}, {OPERAND_REGISTER}, {OPERAND_REGISTER}>>
OPFORMAT_I_TYPE == <<{OPERAND_REGISTER}, {OPERAND_REGISTER}, {OPERAND_IMMEDIATE}>>
OPFORMAT_I_ADDR_TYPE == <<{OPERAND_REGISTER}, {OPERAND_ADDRESS, OPERAND_LABEL}, {}>>
OPFORMAT_I_BRANCH_TYPE ==
    <<{OPERAND_REGISTER}, {OPERAND_REGISTER, OPERAND_IMMEDIATE}, {OPERAND_LABEL}>>
OPFORMAT_J_TYPE == <<{OPERAND_LABEL}, {}, {}>>
OPFORMAT_BRANCH_TYPE == <<{OPERAND_REGISTER}, {OPERAND_LABEL}, {}>>
OPFORMAT_REGISTER == <<{OPERAND_REGISTER}, {}, {}>>
OPFORMAT_IMMEDIATE == <<{OPERAND_IMMEDIATE}, {}, {}>>
OPFORMAT_REG_IMM == <<{OPERAND_REGISTER}, {OPERAND_IMMEDIATE}, {}>>
OPFORMAT_REG_REG == <<{OPERAND_REGISTER}, {OPERAND_REGISTER}, {}>>
OPFORMAT_REG_LAB == <<{OPERAND_REGISTER}, {OPERAND_LABEL}, {}>>
OPFORMAT_IMM_REP == <<{OPERAND_IMMEDIATE, OPERAND_REPEAT}, {}, {}>>
OPFORMAT_STRING == <<{OPERAND_STRING}, {}, {}>>
OPFORMAT_IMM_LAB_REP == <<{OPERAND_IMMEDIATE, OPERAND_LABEL, OPERAND_REPEAT}, {}, {}>>
OPFORMAT_R_TYPE_OPREG ==
    <<{OPERAND_REGISTER}, {OPERAND_REGISTER}, {OPERAND_REGISTER, OPERAND_OPTIONAL}>>

Entry(opcode, funct, rt, operand, type, size) ==
    [opcode |-> opcode, funct |-> funct, rt |-> rt, operand |-> operand,
     type |-> type, size |-> size]

FunctMnemonics ==
    {"add", "addu", "and", "nor", "or", "slt", "sltu", "sub", "subu", "xor"}

FunctOf(m) ==
    CASE m = "add" -> 32 [] m = "addu" -> 33 [] m = "and" -> 36 [] m = "nor" -> 39
      [] m = "or" -> 37 [] m = "slt" -> 42 [] m = "sltu" -> 43 [] m = "sub" -> 34
      [] m = "subu" -> 35 [] m = "xor" -> 38 [] m = "sll" -> 0 [] m = "sra" -> 3
      [] m = "srl" -> 2 [] m = "jr" -> 8 [] m = "syscall" -> 12 [] m = "div" -> 26
      [] m = "divu" -> 27 [] m = "mfhi" -> 16 [] m = "mflo" -> 18 [] m = "mult" -> 24
      [] m = "multu" -> 25

MemMnemonics == {"lb", "lbu", "lh", "lhu", "lw", "sb", "sh", "sw"}

ImmMnemonics == {"addi", "addiu", "andi", "ori", "slti", "sltiu", "xori"}

OpcodeOf(m) ==
    CASE m = "lb" -> 32 [] m = "lbu" -> 36 [] m = "lh" -> 33 [] m = "lhu" -> 37
      [] m = "lw" -> 35 [] m = "sb" -> 40 [] m = "sh" -> 41 [] m = "sw" -> 43
      [] m = "addi" -> 8 [] m = "addiu" -> 9 [] m = "andi" -> 12 [] m = "ori" -> 13
      [] m = "slti" -> 10 [] m = "sltiu" -> 11 [] m = "xori" -> 14

PsuedoMnemonics ==
    {"move", "li", "la", "not", "beqz", "bge", "ble", "bnez", "blt", "bgt", "abs",
     "neg", "ror", "rol", "sgt", "b", "sne", "bleu", "bgeu", "bltu", "bgtu"}

\* the ordinal of a pseudo-instruction or directive (its row in the table),
\* which the table stores in the opcode field of such rows
Ordinal(m) ==
    CASE m = "move" -> 41 [] m = "li" -> 42 [] m = "la" -> 43 [] m = "not" -> 44
      [] m = "beqz" -> 45 [] m = "bge" -> 46 [] m = "ble" -> 47 [] m = "bnez" -> 48
      [] m = "blt" -> 49 [] m = "bgt" -> 50
      [] m = ".include" -> 57 [] m = ".text" -> 58 [] m = ".data" -> 59
      [] m = ".ascii" -> 60 [] m = ".asciiz" -> 61 [] m = ".byte" -> 62
      [] m = ".align" -> 63 [] m = ".half" -> 64 [] m = ".word" -> 65
      [] m = ".ktext" -> 66 [] m = ".kdata" -> 67 [] m = ".space" -> 68
      [] m = "abs" -> 70 [] m = "neg" -> 71 [] m = "ror" -> 72 [] m = "rol" -> 73
      [] m = "sgt" -> 74 [] m = "b" -> 75 [] m = "sne" -> 76 [] m = "bleu" -> 77
      [] m = "bgeu" -> 78 [] m = "bltu" -> 79 [] m = "bgtu" -> 80

PsuedoFormat(m) ==
    CASE m \in {"move", "not", "abs", "neg"} -> OPFORMAT_REG_REG
      [] m = "li" -> OPFORMAT_REG_IMM
      [] m = "la" -> OPFORMAT_REG_LAB
      [] m \in {"beqz", "bnez"} -> OPFORMAT_BRANCH_TYPE
      [] m \in {"bge", "ble", "blt", "bgt", "bleu", "bgeu", "bltu", "bgtu"} ->
            OPFORMAT_I_BRANCH_TYPE
      [] m \in {"ror", "rol"} -> OPFORMAT_I_TYPE
      [] m \in {"sgt", "sne"} -> OPFORMAT_R_TYPE
      [] m = "b" -> OPFORMAT_J_TYPE

PsuedoSize(m) ==
    CASE m \in {"move", "not", "beqz", "bnez", "neg", "sgt", "b"} -> 4
      [] m \in {"li", "la", "bge", "ble", "blt", "bgt", "sne", "bleu", "bgeu", "bltu",
                "bgtu"} -> 8
      [] m \in {"abs", "ror", "rol"} -> 12

DirectiveFormat(m) ==
    CASE m \in {".include", ".ascii", ".asciiz"} -> OPFORMAT_STRING
      [] m \in {".text", ".data", ".ktext", ".kdata"} -> OPFORMAT_NONE
      [] m \in {".byte", ".half"} -> OPFORMAT_IMM_REP
      [] m \in {".align", ".space"} -> OPFORMAT_IMMEDIATE
      [] m = ".word" -> OPFORMAT_IMM_LAB_REP

Directives ==
    {".include", ".text", ".data", ".ascii", ".asciiz", ".byte", ".align", ".half",
     ".word", ".ktext", ".kdata", ".space"}

opcode_table(m) ==
    CASE m \in FunctMnemonics -> Entry(0, FunctOf(m), 0, OPFORMAT_R_TYPE, OPTYPE_DEFAULT, 0)
      [] m \in {"sll", "sra", "srl"} ->
            Entry(0, FunctOf(m), 0, OPFORMAT_I_TYPE, OPTYPE_DEFAULT, 0)
      [] m = "beq" -> Entry(4, 0, 0, OPFORMAT_I_BRANCH_TYPE, OPTYPE_DEFAULT, 0)
      [] m = "bgez" -> Entry(1, 0, 1, OPFORMAT_BRANCH_TYPE, OPTYPE_DEFAULT, 0)
      [] m = "bgezal" -> Entry(1, 0, 17, OPFORMAT_BRANCH_TYPE, OPTYPE_DEFAULT, 0)
      [] m = "bgtz" -> Entry(7, 0, 0, OPFORMAT_BRANCH_TYPE, OPTYPE_DEFAULT, 0)
      [] m = "blez" -> Entry(6, 0, 0, OPFORMAT_BRANCH_TYPE, OPTYPE_DEFAULT, 0)
      [] m = "bltz" -> Entry(1, 0, 0, OPFORMAT_BRANCH_TYPE, OPTYPE_DEFAULT, 0)
      [] m = "bltzal" -> Entry(1, 0, 16, OPFORMAT_BRANCH_TYPE, OPTYPE_DEFAULT, 0)
      [] m = "bne" -> Entry(5, 0, 0, OPFORMAT_I_BRANCH_TYPE, OPTYPE_DEFAULT, 0)
      [] m = "j" -> Entry(2, 0, 0, OPFORMAT_J_TYPE, OPTYPE_DEFAULT, 0)
      [] m = "jal" -> Entry(3, 0, 0, OPFORMAT_J_TYPE, OPTYPE_DEFAULT, 0)
      [] m = "jr" -> Entry(0, FunctOf(m), 0, OPFORMAT_REGISTER, OPTYPE_DEFAULT, 0)
      [] m = "syscall" -> Entry(0, FunctOf(m), 0, OPFORMAT_NONE, OPTYPE_DEFAULT, 0)
      [] m \in MemMnemonics ->
            Entry(OpcodeOf(m), 0, 0, OPFORMAT_I_ADDR_TYPE, OPTYPE_DEFAULT, 0)
      [] m \in ImmMnemonics ->
            Entry(OpcodeOf(m), 0, 0, OPFORMAT_I_TYPE, OPTYPE_DEFAULT, 0)
      [] m = "lui" -> Entry(15, 0, 0, OPFORMAT_REG_IMM, OPTYPE_DEFAULT, 0)
      [] m \in PsuedoMnemonics ->
            Entry(Ordinal(m), 0, 0, PsuedoFormat(m), OPTYPE_PSUEDO, PsuedoSize(m))
      [] m \in {"div", "divu"} ->
            Entry(0, FunctOf(m), 0, OPFORMAT_R_TYPE_OPREG, OPTYPE_DEFAULT, 0)
      [] m \in {"mfhi", "mflo"} ->
            Entry(0, FunctOf(m), 0, OPFORMAT_REGISTER, OPTYPE_DEFAULT, 0)
      [] m \in {"mult", "multu"} ->
            Entry(0, FunctOf(m), 0, OPFORMAT_REG_REG, OPTYPE_DEFAULT, 0)
      [] m \in Directives ->
            Entry(Ordinal(m), 0, 0, DirectiveFormat(m), OPTYPE_DIRECTIVE, 0)
      [] m = "mul" -> Entry(28, 2, 0, OPFORMAT_R_TYPE, OPTYPE_DEFAULT, 0)

(***************************************************************************)
(* Symbol table, lists and error reporting                                 *)
(***************************************************************************)
\* NULL when the key is absent
get_symbol_table(a, key) == key \in DOMAIN a.symbol_table

insert_symbol_table(a, key) ==
    [a EXCEPT !.symbol_table =
        (key :> [status |-> SYMBOL_UNDEFINED, offset |-> <<0, 0>>,
                 segment |-> SEGMENT_TEXT, instr_list |-> <<>>]) @@ @]

\* a variant that inserts at the rear of the list
insert_rear(list, value) == Append(list, value)

insert_front(list, value) == <<value>> \o list

\* sets the status and skips tokens of the active tokenizer up to the next
\* end of line; `drained' keeps the depth of the tokenizer that lost tokens
report_cfg(a) ==
    [a EXCEPT !.status = ASSEMBLER_STATUS_FAIL,
              !.drained = IF a.lookahead \in {"TOK_EOL", "TOK_NULL"}
                          THEN @ ELSE a.tokenizer_list,
              !.lookahead = IF @ = "TOK_NULL" THEN "TOK_NULL" ELSE "TOK_EOL"]

\* free() of an instruction node; freeing a node twice is undefined
destroy_instruction(a, instr) ==
    [a EXCEPT !.freed = @ \cup {instr.id}, !.ub = @ \/ instr.id \in a.freed]

\* a variant that measures the distance from the branch word itself instead
\* of from the word after it
get_branch_offset_no_delay(a, entry) ==
    Shr32(Sub32(entry.offset, a.segment_offset[a.segment]), 2)

get_branch_offset(a, entry) ==
    Shr32(Sub32(entry.offset, Add32(a.segment_offset[a.segment], <<0, 4>>)), 2)

\* a variant of NoteLabel that inserts the symbol and leaves the list alone
NoteLabel_untracked(a, op) ==
    IF op.operand = OPERAND_LABEL /\ ~get_symbol_table(a, op.identifier)
    THEN insert_symbol_table(a, op.identifier)
    ELSE a

\* a label operand that is not in the table yet is inserted (undefined) and
\* put at the front of the declared-symbol list
NoteLabel(a, op) ==
    IF op.operand = OPERAND_LABEL /\ ~get_symbol_table(a, op.identifier)
    THEN [insert_symbol_table(a, op.identifier) EXCEPT
            !.decl_symlist = insert_front(@, op.identifier)]
    ELSE a

RECURSIVE NoteLabels(_, _, _, _)
NoteLabels(a, ops, from, to) ==
    IF from > to THEN a ELSE NoteLabels(NoteLabel(a, ops[from]), ops, from + 1, to)

\* the last index of the run of operands, starting at cur, that match format f
RECURSIVE RunEnd(_, _, _)
RunEnd(f, ops, cur) ==
    IF cur + 1 <= Len(ops) /\ ops[cur + 1].operand \in f
    THEN RunEnd(f, ops, cur + 1) ELSE cur

Res(a, st) == [a |-> a, assemble_status |-> st]

MAX_OPERAND_COUNT == 3

RECURSIVE verify_from(_, _, _, _, _)
verify_from(a, fmt, ops, i, cur) ==
    IF i > MAX_OPERAND_COUNT
    THEN IF cur <= Len(ops) THEN Res(report_cfg(a), 0) ELSE Res(a, 1)
    ELSE IF OPERAND_REPEAT \in fmt[i]
    THEN IF cur > Len(ops) \/ ops[cur].operand \notin fmt[i]
         THEN Res(report_cfg(a), 0)
         ELSE LET last == RunEnd(fmt[i], ops, cur)
              IN  verify_from(NoteLabels(a, ops, cur, last), fmt, ops, i + 1, last + 1)
    ELSE IF fmt[i] = {}
    THEN IF cur <= Len(ops) THEN Res(report_cfg(a), 0) ELSE Res(a, 1)
    ELSE IF cur > Len(ops) \/ ops[cur].operand \notin fmt[i]
    THEN IF OPERAND_OPTIONAL \in fmt[i]
         THEN verify_from(a, fmt, ops, i + 1, cur)
         ELSE Res(report_cfg(a), 0)
    ELSE verify_from(NoteLabel(a, ops[cur]), fmt, ops, i + 1, cur + 1)

verify_operand_list(a, mnemonic, operand_list) ==
    verify_from(a, opcode_table(mnemonic).operand, operand_list, 1, 1)

\* insert_front(sym_entry->instr_list, instr)
Defer(a, key, instr) ==
    [a EXCEPT !.symbol_table[key].instr_list = insert_front(@, instr)]

(***************************************************************************)
(* Encoders.  An instruction node is                                       *)
(*   [id, mnemonic, operand_list, offset, segment]                         *)
(* and every encoder returns the updated assembler and assemble_status.    *)
(***************************************************************************)
\* a variant of the common exit that reserves one word whatever the size
Reserve_one_word(r, size) ==
    IF r.assemble_status = 0
    THEN Res(incr_segment_offset(r.a, <<0, 4>>), 0)
    ELSE r

\* the common exit of the encoders: a record that was deferred reserves
\* `size' bytes at the cursor
Reserve(r, size) ==
    IF r.assemble_status = 0
    THEN Res(incr_segment_offset(r.a, <<0, size>>), 0)
    ELSE r

\* a variant of CompareBranch that leaves out the set-less-than word
CompareBranch_no_compare(a, instr, slt_op, slt_funct, br_op) ==
    LET label == instr.operand_list[3]
        sym_entry == a.symbol_table[label.identifier]
    IN  IF sym_entry.status = SYMBOL_UNDEFINED
        THEN Res(Defer(a, label.identifier, instr), 0)
        ELSE Res(write_instruction(a,
                    CREATE_INSTRUCTION_I(br_op, 1, 0, get_branch_offset(a, sym_entry))), 1)

\* the set-less-than step of bge/blt/bgeu/bltu followed by the branch word
CompareBranch(a, instr, slt_op, slt_funct, br_op) ==
    LET rs == instr.operand_list[1]
        rt == instr.operand_list[2]
        label == instr.operand_list[3]
        rt_imm == rt.operand = OPERAND_IMMEDIATE
        sym_entry == a.symbol_table[label.identifier]
    IN  IF sym_entry.status = SYMBOL_UNDEFINED
        THEN Res(Defer(a, label.identifier, instr), 0)
        ELSE LET a1 == IF rt_imm
                       THEN write_instruction(a, CREATE_INSTRUCTION_I(slt_op, rs.reg, 1, rt.integer))
                       ELSE write_instruction(a, CREATE_INSTRUCTION_R(0, rs.reg, rt.reg, 1, 0, slt_funct))
             IN  Res(write_instruction(a1,
                        CREATE_INSTRUCTION_I(br_op, 1, 0, get_branch_offset(a1, sym_entry))), 1)

\* ble/bgt/bleu/bgtu: three words with an immediate, two with a register
SwapBranch(a, instr, first, second, slt_funct, br_op_imm, br_op_reg) ==
    LET rs == instr.operand_list[1]
        rt == instr.operand_list[2]
        label == instr.operand_list[3]
        rt_imm == rt.operand = OPERAND_IMMEDIATE
        sym_entry == a.symbol_table[label.identifier]
    IN  IF sym_entry.status = SYMBOL_UNDEFINED
        THEN Res(Defer(IF rt_imm THEN incr_segment_offset(a, <<0, 4>>) ELSE a,
                       label.identifier, instr), 0)
        ELSE IF rt_imm
        THEN LET a1 == write_instruction(a, first)
                 a2 == write_instruction(a1, second)
             IN  Res(write_instruction(a2,
                        CREATE_INSTRUCTION_I(br_op_imm, 1, 0, get_branch_offset(a2, sym_entry))), 1)
        ELSE LET a1 == write_instruction(a,
                            CREATE_INSTRUCTION_R(0, rt.reg, rs.reg, 1, 0, slt_funct))
             IN  Res(write_instruction(a1,
                        CREATE_INSTRUCTION_I(br_op_reg, 1, 0, get_branch_offset(a1, sym_entry))), 1)

\* beqz/bnez/b and the single-register core branches: one branch word
SingleBranch(a, instr, label, opcode, rs, rt) ==
    LET sym_entry == a.symbol_table[label.identifier]
    IN  IF sym_entry.status = SYMBOL_UNDEFINED
        THEN Res(Defer(a, label.identifier, instr), 0)
        ELSE Res(write_instruction(a,
                    CREATE_INSTRUCTION_I(opcode, rs, rt, get_branch_offset(a, sym_entry))), 1)

assemble_psuedo_instruction(a, instr) ==
    LET m == instr.mnemonic
        entry == opcode_table(m)
        o1 == instr.operand_list[1]
        o2 == instr.operand_list[2]
        o3 == instr.operand_list[3]
        r ==
          CASE m = "move" ->
                 Res(write_instruction(a, CREATE_INSTRUCTION_R(0, 0, o2.reg, o1.reg, 0, 33)), 1)
            [] m = "li" ->
                 LET immediate == o2.integer
                 IN  IF Top17(immediate) # 131071 /\ immediate[1] # 0
                     THEN Res(write_instruction(
                                write_instruction(a,
                                    CREATE_INSTRUCTION_I(15, 0, 1, Shr32(immediate, 16))),
                                CREATE_INSTRUCTION_I(13, 1, o1.reg, immediate)), 1)
                     ELSE IF immediate[1] = 0 /\ immediate[2] >= 32768
                     THEN Res(write_instruction(a,
                                CREATE_INSTRUCTION_I(13, 0, o1.reg, immediate)), 1)
                     ELSE Res(write_instruction(a,
                                CREATE_INSTRUCTION_I(9, 0, o1.reg, immediate)), 1)
            [] m = "la" ->
                 LET sym_entry == a.symbol_table[o2.identifier]
                 IN  IF sym_entry.status = SYMBOL_UNDEFINED
                     THEN Res(Defer(a, o2.identifier, instr), 0)
                     ELSE Res(write_instruction(
                                write_instruction(a,
                                    CREATE_INSTRUCTION_I(15, 0, 1, Shr32(sym_entry.offset, 16))),
                                CREATE_INSTRUCTION_I(13, 1, o1.reg, sym_entry.offset)), 1)
            [] m = "not" ->
                 Res(write_instruction(a, CREATE_INSTRUCTION_R(0, o2.reg, 0, o1.reg, 0, 39)), 1)
            [] m = "beqz" ->
                 SingleBranch(a, instr, o2, 4, o1.reg, 0)
            [] m = "bge" -> CompareBranch(a, instr, 10, 42, 4)
            [] m = "ble" ->
                 SwapBranch(a, instr,
                            CREATE_INSTRUCTION_I(8, o1.reg, 1, <<65535, 65535>>),
                            CREATE_INSTRUCTION_I(10, 1, 1, o2.integer), 42, 5, 4)
            [] m = "bnez" ->
                 SingleBranch(a, instr, o2, 5, o1.reg, 0)
            [] m = "blt" -> CompareBranch(a, instr, 10, 42, 5)
            [] m = "bgt" ->
                 SwapBranch(a, instr,
                            CREATE_INSTRUCTION_I(8, 0, 1, o2.integer),
                            CREATE_INSTRUCTION_R(0, 1, o1.reg, 1, 0, 42), 42, 5, 5)
            [] m = "abs" ->
                 Res(write_instruction(
                       write_instruction(
                         write_instruction(a, CREATE_INSTRUCTION_R(0, 0, o2.reg, 1, 31, 3)),
                         CREATE_INSTRUCTION_R(0, 1, o2.reg, o1.reg, 0, 38)),
                       CREATE_INSTRUCTION_R(0, o1.reg, 1, o1.reg, 0, 35)), 1)
            [] m = "neg" ->
                 Res(write_instruction(a, CREATE_INSTRUCTION_R(0, 0, o2.reg, o1.reg, 0, 34)), 1)
            [] m = "ror" ->
                 Res(write_instruction(
                       write_instruction(
                         write_instruction(a,
                            CREATE_INSTRUCTION_R(0, 0, o2.reg, 1,
                                                 Sub32(<<0, 32>>, o3.integer)[2], 0)),
                         CREATE_INSTRUCTION_R(0, 0, o2.reg, o1.reg, o3.integer[2], 2)),
                       CREATE_INSTRUCTION_R(0, o1.reg, 1, o1.reg, 0, 37)), 1)
            [] m = "rol" ->
                 Res(write_instruction(
                       write_instruction(
                         write_instruction(a,
                            CREATE_INSTRUCTION_R(0, 0, o2.reg, 1,
                                                 Sub32(<<0, 32>>, o3.integer)[2], 2)),
                         CREATE_INSTRUCTION_R(0, 0, o2.reg, o1.reg, o3.integer[2], 0)),
                       CREATE_INSTRUCTION_R(0, o1.reg, 1, o1.reg, 0, 37)), 1)
            [] m = "sgt" ->
                 Res(write_instruction(a,
                        CREATE_INSTRUCTION_R(0, o3.reg, o2.reg, o1.reg, 0, 42)), 1)
            [] m = "b" ->
                 SingleBranch(a, instr, o1, 1, 0, 1)
            [] m = "sne" ->
                 Res(write_instruction(
                       write_instruction(a,
                          CREATE_INSTRUCTION_R(0, o2.reg, o3.reg, o1.reg, 0, 35)),
                       CREATE_INSTRUCTION_R(0, 0, o1.reg, o1.reg, 0, 43)), 1)
            [] m = "bleu" ->
                 SwapBranch(a, instr,
                            CREATE_INSTRUCTION_I(8, 0, 1, o2.integer),
                            CREATE_INSTRUCTION_R(0, 1, o1.reg, 1, 0, 43), 43, 4, 4)
            [] m = "bgeu" -> CompareBranch(a, instr, 11, 43, 4)
            [] m = "bltu" -> CompareBranch(a, instr, 11, 43, 5)
            [] m = "bgtu" ->
                 SwapBranch(a, instr,
                            CREATE_INSTRUCTION_I(8, 0, 1, o2.integer),
                            CREATE_INSTRUCTION_R(0, 1, o1.reg, 1, 0, 43), 43, 5, 5)
    IN  Reserve(r, entry.size)

assemble_funct_instruction(a, instr) ==
    LET m == instr.mnemonic
        entry == opcode_table(m)
        o1 == instr.operand_list[1]
        o2 == instr.operand_list[2]
        o3 == instr.operand_list[3]
        word ==
          CASE m \in FunctMnemonics ->
                 CREATE_INSTRUCTION_R(0, o2.reg, o3.reg, o1.reg, 0, entry.funct)
            [] m = "jr" -> CREATE_INSTRUCTION_R(0, o1.reg, 0, 0, 0, entry.funct)
            [] m \in {"mfhi", "mflo"} -> CREATE_INSTRUCTION_R(0, 0, 0, o1.reg, 0, entry.funct)
            [] m \in {"sll", "sra", "srl"} ->
                 CREATE_INSTRUCTION_R(0, 0, o2.reg, o1.reg, o3.integer[2], entry.funct)
            [] m = "syscall" -> CREATE_INSTRUCTION_R(0, 0, 0, 0, 0, entry.funct)
            [] m \in {"div", "divu", "mult", "multu"} ->
                 CREATE_INSTRUCTION_R(0, o1.reg, o2.reg, 0, 0, entry.funct)
    IN  Res(write_instruction(a, word), 1)

assemble_opcode_instruction(a, instr) ==
    LET m == instr.mnemonic
        entry == opcode_table(m)
        o1 == instr.operand_list[1]
        o2 == instr.operand_list[2]
        o3 == instr.operand_list[3]
        Expand(immediate) ==
            write_instruction(
              write_instruction(
                write_instruction(a, CREATE_INSTRUCTION_I(15, 0, 1, Shr32(immediate, 16))),
                CREATE_INSTRUCTION_I(13, 1, 1, immediate)),
              CREATE_INSTRUCTION_R(0, o2.reg, 1, o1.reg, 0, entry.opcode + 24))
        r ==
          CASE m \in {"addi", "addiu", "slti", "sltiu"} ->
                 LET immediate == o3.integer
                 IN  IF Top17(immediate) # 131071 /\ Top17(immediate) # 0
                     THEN Res(Expand(immediate), 1)
                     ELSE Res(write_instruction(a,
                                CREATE_INSTRUCTION_I(entry.opcode, o2.reg, o1.reg, immediate)), 1)
            [] m \in {"andi", "ori", "xori"} ->
                 LET immediate == o3.integer
                 IN  IF immediate[1] # 0
                     THEN Res(Expand(immediate), 1)
                     ELSE Res(write_instruction(a,
                                CREATE_INSTRUCTION_I(entry.opcode, o2.reg, o1.reg, immediate)), 1)
            [] m = "lui" ->
                 Res(write_instruction(a,
                        CREATE_INSTRUCTION_I(entry.opcode, 0, o1.reg, o2.integer)), 1)
            [] m \in {"bgez", "bgezal", "bltz", "bltzal", "bgtz", "blez"} ->
                 SingleBranch(a, instr, o2, entry.opcode, o1.reg, entry.rt)
            [] m \in {"bne", "beq"} ->
                 LET rt_imm == o2.operand = OPERAND_IMMEDIATE
                     sym_entry == a.symbol_table[o3.identifier]
                 IN  IF sym_entry.status = SYMBOL_UNDEFINED
                     THEN Res(Defer(IF rt_imm THEN incr_segment_offset(a, <<0, 4>>) ELSE a,
                                    o3.identifier, instr), 0)
                     ELSE IF rt_imm
                     THEN LET a1 == write_instruction(a,
                                        CREATE_INSTRUCTION_I(8, 0, 1, o2.integer))
                          IN  Res(write_instruction(a1,
                                     CREATE_INSTRUCTION_I(entry.opcode, 1, o1.reg,
                                                          get_branch_offset(a1, sym_entry))), 1)
                     ELSE Res(write_instruction(a,
                                 CREATE_INSTRUCTION_I(entry.opcode, o1.reg, o2.reg,
                                                      get_branch_offset(a, sym_entry))), 1)
            [] m \in {"j", "jal"} ->
                 LET sym_entry == a.symbol_table[o1.identifier]
                 IN  IF sym_entry.status = SYMBOL_UNDEFINED
                     THEN Res(Defer(a, o1.identifier, instr), 0)
                     ELSE Res(write_instruction(a,
                                 CREATE_INSTRUCTION_J(entry.opcode, Shr32(sym_entry.offset, 2))), 1)
            [] m \in MemMnemonics ->
                 IF o2.operand = OPERAND_LABEL
                 THEN LET sym_entry == a.symbol_table[o2.identifier]
                      IN  IF sym_entry.status = SYMBOL_UNDEFINED
                          THEN Res(incr_segment_offset(Defer(a, o2.identifier, instr),
                                                       <<0, 4>>), 0)
                          ELSE Res(write_instruction(
                                     write_instruction(a,
                                        CREATE_INSTRUCTION_I(15, 0, 1,
                                                             Shr32(sym_entry.offset, 16))),
                                     CREATE_INSTRUCTION_I(entry.opcode, 1, o1.reg,
                                                          sym_entry.offset)), 1)
                 ELSE Res(write_instruction(a,
                            CREATE_INSTRUCTION_I(entry.opcode, o2.reg, o1.reg, o2.integer)), 1)
            [] m = "mul" ->
                 Res(write_instruction(a,
                        CREATE_INSTRUCTION_R(entry.opcode, o2.reg, o3.reg, o1.reg, 0,
                                             entry.funct)), 1)
    IN  Reserve(r, 4)

assemble_instruction(a, instr) ==
    LET v == verify_operand_list(a, instr.mnemonic, instr.operand_list)
        entry == opcode_table(instr.mnemonic)
    IN  IF v.assemble_status = 0
        THEN Res(destroy_instruction(v.a, instr), 0)
        ELSE IF v.a.segment = SEGMENT_DATA
        THEN Res(destroy_instruction([v.a EXCEPT !.status = ASSEMBLER_STATUS_FAIL], instr), 0)
        ELSE IF entry.type = OPTYPE_PSUEDO
        THEN assemble_psuedo_instruction(v.a, instr)
        ELSE IF entry.opcode = 0
        THEN assemble_funct_instruction(v.a, instr)
        ELSE assemble_opcode_instruction(v.a, instr)

(***************************************************************************)
(* Directives                                                              *)
(***************************************************************************)
\* the character a two-character escape sequence stands for
Escape(c) ==
    CASE c = 97 -> 7 [] c = 98 -> 8 [] c = 101 -> 27 [] c = 102 -> 12 [] c = 110 -> 10
      [] c = 114 -> 13 [] c = 116 -> 9 [] c = 118 -> 11 [] c = 92 -> 92 [] c = 39 -> 39
      [] c = 34 -> 34 [] c = 63 -> 63 [] c = 48 -> 0 [] OTHER -> 92

RECURSIVE write_escaped_string(_, _)
write_escaped_string(a, string) ==
    IF string = <<>> THEN a
    ELSE IF string[1] = 92 /\ Len(string) >= 2
    THEN write_escaped_string(
            incr_segment_offset(write_segment_memory(a, <<Escape(string[2])>>), <<0, 1>>),
            SubSeq(string, 3, Len(string)))
    ELSE write_escaped_string(
            incr_segment_offset(write_segment_memory(a, <<string[1]>>), <<0, 1>>),
            Tail(string))

\* a variant of the operand loop of .word that puts the record on the list
\* of every undefined label
RECURSIVE WordLoop_every_label(_, _, _)
WordLoop_every_label(r, instr, i) ==
    IF i > Len(instr.operand_list) THEN r
    ELSE LET current_operand == instr.operand_list[i]
             a == r.a
         IN  IF current_operand.operand = OPERAND_LABEL
             THEN LET sym_entry == a.symbol_table[current_operand.identifier]
                  IN  IF sym_entry.status = SYMBOL_UNDEFINED
                      THEN WordLoop_every_label(
                             Res(incr_segment_offset(
                                   Defer(a, current_operand.identifier, instr),
                                   <<0, 4>>), 0),
                             instr, i + 1)
                      ELSE WordLoop_every_label(
                             Res(incr_segment_offset(
                                   write_segment_memory(a, WordBytes(sym_entry.offset)),
                                   <<0, 4>>), r.assemble_status),
                             instr, i + 1)
             ELSE WordLoop_every_label(
                    Res(incr_segment_offset(
                          write_segment_memory(a, WordBytes(current_operand.integer)),
                          <<0, 4>>), r.assemble_status),
                    instr, i + 1)

\* the operand loop of .word: r carries the assembler and assemble_status
RECURSIVE WordLoop(_, _, _)
WordLoop(r, instr, i) ==
    IF i > Len(instr.operand_list) THEN r
    ELSE LET current_operand == instr.operand_list[i]
             a == r.a
         IN  IF current_operand.operand = OPERAND_LABEL
             THEN LET sym_entry == a.symbol_table[current_operand.identifier]
                  IN  IF sym_entry.status = SYMBOL_UNDEFINED
                      THEN WordLoop(
                             Res(incr_segment_offset(
                                   IF r.assemble_status = 1
                                   THEN Defer(a, current_operand.identifier, instr) ELSE a,
                                   <<0, 4>>), 0),
                             instr, i + 1)
                      ELSE WordLoop(
                             Res(incr_segment_offset(
                                   write_segment_memory(a, WordBytes(sym_entry.offset)),
                                   <<0, 4>>), r.assemble_status),
                             instr, i + 1)
             ELSE WordLoop(
                    Res(incr_segment_offset(
                          write_segment_memory(a, WordBytes(current_operand.integer)),
                          <<0, 4>>), r.assemble_status),
                    instr, i + 1)

\* the operand loop of .half (size 2) and .byte (size 1)
RECURSIVE DataLoop(_, _, _, _)
DataLoop(a, operand_list, i, size) ==
    IF i > Len(operand_list) THEN a
    ELSE DataLoop(
           incr_segment_offset(
             write_segment_memory(a, SubSeq(WordBytes(operand_list[i].integer), 1, size)),
             <<0, size>>),
           operand_list, i + 1, size)

\* a variant of IncludeFile that does not record the failure to open the file
IncludeFile_unreported(b, instr, env) ==
    IF ~env.opens
    THEN Res(destroy_instruction(b, instr), 0)
    ELSE Res([b EXCEPT !.tokenizer_list = @ + 1, !.lookahead = env.first], 1)

\* the .include case of check_directive.  env.opens: whether the included
\* file can be opened; env.first: its first token
IncludeFile(b, instr, env) ==
    IF ~env.opens
    THEN Res(destroy_instruction([b EXCEPT !.status = ASSEMBLER_STATUS_FAIL], instr), 0)
    ELSE Res([b EXCEPT !.tokenizer_list = @ + 1, !.lookahead = env.first], 1)

check_directive(a, instr, env) ==
    LET directive == instr.mnemonic
        operand_list == instr.operand_list
        v == verify_operand_list(a, directive, operand_list)
        b == v.a
    IN  IF v.assemble_status = 0
        THEN Res(destroy_instruction(b, instr), 0)
        ELSE IF directive \in {".ascii", ".asciiz", ".half", ".byte"}
                /\ b.segment # SEGMENT_DATA
        THEN Res(destroy_instruction([b EXCEPT !.status = ASSEMBLER_STATUS_FAIL], instr), 0)
        ELSE
          CASE directive = ".include" -> IncludeFile(b, instr, env)
            [] directive = ".text" -> Res([b EXCEPT !.segment = SEGMENT_TEXT], 1)
            [] directive = ".data" -> Res([b EXCEPT !.segment = SEGMENT_DATA], 1)
            [] directive = ".ktext" -> Res([b EXCEPT !.segment = SEGMENT_KTEXT], 1)
            [] directive = ".kdata" -> Res([b EXCEPT !.segment = SEGMENT_KDATA], 1)
            [] directive = ".align" ->
                 IF Gt32Nat(operand_list[1].integer, 31)
                 THEN Res(destroy_instruction([b EXCEPT !.status = ASSEMBLER_STATUS_FAIL],
                                              instr), 0)
                 ELSE IF operand_list[1].integer = <<0, 0>>
                 THEN Res(b, 1)
                 ELSE Res(align_segment_offset(b, ToNat(operand_list[1].integer)), 1)
            [] directive = ".word" ->
                 WordLoop(Res(align_segment_offset(b, 2), 1), instr, 1)
            [] directive = ".half" ->
                 Res(DataLoop(align_segment_offset(b, 1), operand_list, 1, 2), 1)
            [] directive = ".byte" -> Res(DataLoop(b, operand_list, 1, 1), 1)
            [] directive = ".ascii" ->
                 Res(write_escaped_string(b, operand_list[1].chars), 1)
            [] directive = ".asciiz" ->
                 LET b1 == write_escaped_string(b, operand_list[1].chars)
                 IN  Res(incr_segment_offset(write_segment_memory(b1, <<0>>), <<0, 1>>), 1)
            [] directive = ".space" ->
                 Res(incr_segment_offset(b, operand_list[1].integer), 1)

(***************************************************************************)
(* The grammar, one source line at a time.  A line is                      *)
(*   [label, colon, mnemonic, operand_list]                                *)
(* label = "" when the line does not start with an identifier, and         *)
(* mnemonic = "" when nothing follows.                                     *)
(***************************************************************************)
BodyToken(st) ==
    IF st.mnemonic = "" THEN "TOK_EOL"
    ELSE IF st.mnemonic \in Directives THEN "TOK_DIRECTIVE" ELSE "TOK_MNEMONIC"

\* a variant of DefineLabel that records every label in the text segment
DefineLabel_in_text(a, id) ==
    IF get_symbol_table(a, id)
    THEN IF a.symbol_table[id].status # SYMBOL_UNDEFINED
         THEN report_cfg([a EXCEPT !.symbol_table[id].status = SYMBOL_DOUBLY])
         ELSE [a EXCEPT !.symbol_table[id].offset = a.segment_offset[a.segment],
                        !.symbol_table[id].segment = SEGMENT_TEXT,
                        !.symbol_table[id].status = SYMBOL_DEFINED]
    ELSE [insert_symbol_table(a, id) EXCEPT
            !.symbol_table[id].offset = a.segment_offset[a.segment],
            !.symbol_table[id].segment = SEGMENT_TEXT,
            !.symbol_table[id].status = SYMBOL_DEFINED]

\* a variant of DefineLabel that patches the offset of a label defined again
DefineLabel_repatch(a, id) ==
    IF get_symbol_table(a, id)
    THEN IF a.symbol_table[id].status # SYMBOL_UNDEFINED
         THEN report_cfg([a EXCEPT !.symbol_table[id].status = SYMBOL_DOUBLY,
                                   !.symbol_table[id].offset = a.segment_offset[a.segment],
                                   !.symbol_table[id].segment = a.segment])
         ELSE [a EXCEPT !.symbol_table[id].offset = a.segment_offset[a.segment],
                        !.symbol_table[id].segment = a.segment,
                        !.symbol_table[id].status = SYMBOL_DEFINED]
    ELSE [insert_symbol_table(a, id) EXCEPT
            !.symbol_table[id].offset = a.segment_offset[a.segment],
            !.symbol_table[id].segment = a.segment,
            !.symbol_table[id].status = SYMBOL_DEFINED]

\* the symbol-table part of label_cfg: `a' has its cursor aligned already
DefineLabel(a, id) ==
    IF get_symbol_table(a, id)
    THEN IF a.symbol_table[id].status # SYMBOL_UNDEFINED
         THEN report_cfg([a EXCEPT !.symbol_table[id].status = SYMBOL_DOUBLY])
         ELSE [a EXCEPT !.symbol_table[id].offset = a.segment_offset[a.segment],
                        !.symbol_table[id].segment = a.segment,
                        !.symbol_table[id].status = SYMBOL_DEFINED]
    ELSE [insert_symbol_table(a, id) EXCEPT
            !.symbol_table[id].offset = a.segment_offset[a.segment],
            !.symbol_table[id].segment = a.segment,
            !.symbol_table[id].status = SYMBOL_DEFINED]

\* a variant of label_cfg that records the cursor as it is
label_cfg_unaligned(a, st) ==
    IF ~st.colon
    THEN report_cfg(a)
    ELSE DefineLabel([a EXCEPT !.lookahead = BodyToken(st)], st.label)

label_cfg(a, st) ==
    IF ~st.colon
    THEN report_cfg(a)
    ELSE DefineLabel([(CASE st.mnemonic = ".word" -> align_segment_offset(a, 2)
                         [] st.mnemonic = ".half" -> align_segment_offset(a, 1)
                         [] OTHER -> a) EXCEPT !.lookahead = BodyToken(st)],
                     st.label)

\* a variant of end_line_cfg that clears the error status at each end of line
end_line_cfg_recover(a, nxt) ==
    CASE a.lookahead = "TOK_EOL" ->
           [a EXCEPT !.lookahead = nxt, !.status = ASSEMBLER_STATUS_OK]
      [] a.lookahead = "TOK_NULL" -> a
      [] OTHER -> report_cfg(a)

\* nxt: the token that follows the end of line in the input
end_line_cfg(a, nxt) ==
    CASE a.lookahead = "TOK_EOL" -> [a EXCEPT !.lookahead = nxt]
      [] a.lookahead = "TOK_NULL" -> a
      [] OTHER -> report_cfg(a)

\* the end of instruction_cfg: a record that was not deferred is released
Release(r, node) ==
    IF r.assemble_status = 1 THEN destroy_instruction(r.a, node) ELSE r.a

\* instruction_cfg after the optional label: a1 is the assembler at that point
Statement(a1, st, env) ==
    LET node == [id |-> a1.nalloc + 1, mnemonic |-> st.mnemonic,
                 operand_list |-> st.operand_list,
                 offset |-> a1.segment_offset[a1.segment], segment |-> a1.segment]
        a2 == [a1 EXCEPT !.nalloc = @ + 1, !.lookahead = "TOK_EOL"]
    IN  CASE a1.lookahead = "TOK_DIRECTIVE" ->
               end_line_cfg(Release(check_directive(a2, node, env), node), env.nxt)
          [] a1.lookahead = "TOK_MNEMONIC" ->
               end_line_cfg(Release(assemble_instruction(a2, node), node), env.nxt)
          [] OTHER -> end_line_cfg(a1, env.nxt)

instruction_cfg(a, st, env) ==
    Statement(IF st.label # ""
              THEN label_cfg(a, st)
              ELSE [a EXCEPT !.lookahead = BodyToken(st)], st, env)

(***************************************************************************)
(* Bounds and the source lines the model feeds to the assembler            *)
(***************************************************************************)
\* source lines read in one run
MaxLines == 3

\* nesting depth of .include
MaxInclude == 1

Labels == {"a", "b"}

Stmt(label, colon, mnemonic, operand_list) ==
    [label |-> label, colon |-> colon, mnemonic |-> mnemonic, operand_list |-> operand_list]

Blank == Stmt("", FALSE, "", <<>>)

IncludeLine == Stmt("", FALSE, ".include", <<Str(<<102>>)>>)

\* -4 as a 32-bit value
Minus4 == <<65535, 65532>>

Lines ==
    {Stmt(k, TRUE, "", <<>>) : k \in Labels}
    \cup {Blank,
          Stmt("foo", FALSE, "", <<>>),
          Stmt("", FALSE, "syscall", <<>>),
          Stmt("", FALSE, "j", <<Lab("a")>>),
          Stmt("", FALSE, "bne", <<Reg(8), Imm(<<0, 5>>), Lab("b")>>),
          Stmt("", FALSE, ".word", <<Lab("a")>>),
          Stmt("", FALSE, ".word", <<Lab("a"), Lab("b")>>),
          Stmt("b", TRUE, ".word", <<Imm(<<0, 7>>)>>),
          Stmt("", FALSE, ".data", <<>>),
          Stmt("", FALSE, ".space", <<Imm(<<0, 1>>)>>),
          Stmt("", FALSE, ".space", <<Imm(Minus4)>>),
          Stmt("", FALSE, ".align", <<Imm(<<0, 31>>)>>),
          IncludeLine}

NoNode == [id |-> 0, mnemonic |-> "", operand_list |-> <<>>, offset |-> <<0, 0>>,
           segment |-> SEGMENT_TEXT]

(***************************************************************************)
(* The symbol table as symtable.c stores it: an array of buckets, each a   *)
(* chain of entries in insertion order.  A key is the sequence of its      *)
(* character codes; an entry is [key, id], id standing for its address.    *)
(* The operations of the assembler above use the table through the         *)
(* abstraction `function from keys'; these are the operations themselves.  *)
(***************************************************************************)
NULL == [key |-> <<>>, id |-> 0]

\* hash * 33 + c over the characters, from 5381.  size_t arithmetic is modulo
\* 2^64 and every bucket count is a power of two, so the low 16 bits of the
\* hash determine the bucket
RECURSIVE djb2hash_from(_, _, _)
djb2hash_from(key, i, hash) ==
    IF i > Len(key) THEN hash
    ELSE djb2hash_from(key, i + 1, (hash * 33 + key[i]) % W16)

djb2hash(key) == djb2hash_from(key, 1, 5381)

INITIAL_BUCKETS == 32

create_symbol_table ==
    [buckets |-> [i \in 0 .. (INITIAL_BUCKETS - 1) |-> <<>>],
     bucket_size |-> INITIAL_BUCKETS,
     length |-> 0]

\* the entry goes to the end of the chain of its bucket
insert_at_index_st(t, index, entry) ==
    [t EXCEPT !.length = @ + 1, !.buckets[index] = Append(@, entry)]

\* a variant of the move that keeps the bucket index of the old table
RECURSIVE MoveAll_stale_index(_, _, _, _, _)
MoveAll_stale_index(t, prev_buckets, prev_size, i, j) ==
    IF i >= prev_size THEN t
    ELSE IF j > Len(prev_buckets[i])
    THEN MoveAll_stale_index(t, prev_buckets, prev_size, i + 1, 1)
    ELSE MoveAll_stale_index(insert_at_index_st(t, i, prev_buckets[i][j]),
                             prev_buckets, prev_size, i, j + 1)

\* the loops of percolate_symbol_table: entry j of old bucket i is hashed
\* again and moved to the new table
RECURSIVE MoveAll(_, _, _, _, _)
MoveAll(t, prev_buckets, prev_size, i, j) ==
    IF i >= prev_size THEN t
    ELSE IF j > Len(prev_buckets[i])
    THEN MoveAll(t, prev_buckets, prev_size, i + 1, 1)
    ELSE MoveAll(insert_at_index_st(t, djb2hash(prev_buckets[i][j].key) % t.bucket_size,
                                    prev_buckets[i][j]),
                 prev_buckets, prev_size, i, j + 1)

\* length / bucket_size >= 0.7f: with a power of two of at least 32 as the
\* divisor the quotient is never within rounding distance of 0.7
percolate_symbol_table(t) ==
    IF 10 * t.length >= 7 * t.bucket_size
    THEN MoveAll([buckets |-> [i \in 0 .. (2 * t.bucket_size - 1) |-> <<>>],
                  bucket_size |-> 2 * t.bucket_size,
                  length |-> 0],
                 t.buckets, t.bucket_size, 0, 1)
    ELSE t

\* insert_symbol_table on the hash table; `item' is the entry it returns
insert_symbol_table_st(t, item) ==
    percolate_symbol_table(insert_at_index_st(t, djb2hash(item.key) % t.bucket_size, item))

RECURSIVE SearchChain(_, _, _)
SearchChain(chain, key, i) ==
    IF i > Len(chain) THEN NULL
    ELSE IF chain[i].key = key THEN chain[i]
    ELSE SearchChain(chain, key, i + 1)

\* get_symbol_table on the hash table
get_symbol_table_st(t, key) ==
    SearchChain(t.buckets[djb2hash(key) % t.bucket_size], key, 1)

(***************************************************************************)
(* The reserved keyword table of tokenizer.c and its search.  A string is  *)
(* the sequence of its characters, compared by their codes as strcmp does. *)
(***************************************************************************)
\* the code of each character of the table's keys
Ord ==
    ("$" :> 36) @@ ("." :> 46) @@ ("0" :> 48) @@ ("1" :> 49) @@ ("2" :> 50) @@ ("3" :> 51) @@
    ("4" :> 52) @@ ("5" :> 53) @@ ("6" :> 54) @@ ("7" :> 55) @@ ("8" :> 56) @@ ("9" :> 57) @@
    ("a" :> 97) @@ ("b" :> 98) @@ ("c" :> 99) @@ ("d" :> 100) @@ ("e" :> 101) @@ ("f" :> 102) @@
    ("g" :> 103) @@ ("h" :> 104) @@ ("i" :> 105) @@ ("j" :> 106) @@ ("k" :> 107) @@ ("l" :> 108) @@
    ("m" :> 109) @@ ("n" :> 110) @@ ("o" :> 111) @@ ("p" :> 112) @@ ("q" :> 113) @@ ("r" :> 114) @@
    ("s" :> 115) @@ ("t" :> 116) @@ ("u" :> 117) @@ ("v" :> 118) @@ ("w" :> 119) @@ ("x" :> 120) @@
    ("y" :> 121) @@ ("z" :> 122)

\* the code at position i of a string, 0 at its end
CharAt(str, i) == IF i > Len(str) THEN 0 ELSE Ord[str[i]]

RECURSIVE strcmp_from(_, _, _)
strcmp_from(s1, s2, i) ==
    IF CharAt(s1, i) # CharAt(s2, i) THEN CharAt(s1, i) - CharAt(s2, i)
    ELSE IF CharAt(s1, i) = 0 THEN 0
    ELSE strcmp_from(s1, s2, i + 1)

\* a comparison that orders the shorter string first
strcmp_shortlex(s1, s2) ==
    IF Len(s1) # Len(s2) THEN Len(s1) - Len(s2) ELSE strcmp_from(s1, s2, 1)

\* strcmp: negative, zero or positive
strcmp(s1, s2) == strcmp_from(s1, s2, 1)

reserved_table == <<
    [id |-> <<"$", "0">>,                            token |-> "TOK_REGISTER", value |-> 0],
    [id |-> <<"$", "1">>,                            token |-> "TOK_REGISTER", value |-> 1],
    [id |-> <<"$", "1", "0">>,                       token |-> "TOK_REGISTER", value |-> 10],
    [id |-> <<"$", "1", "1">>,                       token |-> "TOK_REGISTER", value |-> 11],
    [id |-> <<"$", "1", "2">>,                       token |-> "TOK_REGISTER", value |-> 12],
    [id |-> <<"$", "1", "3">>,                       token |-> "TOK_REGISTER", value |-> 13],
    [id |-> <<"$", "1", "4">>,                       token |-> "TOK_REGISTER", value |-> 14],
    [id |-> <<"$", "1", "5">>,                       token |-> "TOK_REGISTER", value |-> 15],
    [id |-> <<"$", "1", "6">>,                       token |-> "TOK_REGISTER", value |-> 16],
    [id |-> <<"$", "1", "7">>,                       token |-> "TOK_REGISTER", value |-> 17],
    [id |-> <<"$", "1", "8">>,                       token |-> "TOK_REGISTER", value |-> 18],
    [id |-> <<"$", "1", "9">>,                       token |-> "TOK_REGISTER", value |-> 19],
    [id |-> <<"$", "2">>,                            token |-> "TOK_REGISTER", value |-> 2],
    [id |-> <<"$", "2", "0">>,                       token |-> "TOK_REGISTER", value |-> 20],
    [id |-> <<"$", "2", "1">>,                       token |-> "TOK_REGISTER", value |-> 21],
    [id |-> <<"$", "2", "2">>,                       token |-> "TOK_REGISTER", value |-> 22],
    [id |-> <<"$", "2", "3">>,                       token |-> "TOK_REGISTER", value |-> 23],
    [id |-> <<"$", "2", "4">>,                       token |-> "TOK_REGISTER", value |-> 24],
    [id |-> <<"$", "2", "5">>,                       token |-> "TOK_REGISTER", value |-> 25],
    [id |-> <<"$", "2", "6">>,                       token |-> "TOK_REGISTER", value |-> 26],
    [id |-> <<"$", "2", "7">>,                       token |-> "TOK_REGISTER", value |-> 27],
    [id |-> <<"$", "2", "8">>,                       token |-> "TOK_REGISTER", value |-> 28],
    [id |-> <<"$", "2", "9">>,                       token |-> "TOK_REGISTER", value |-> 29],
    [id |-> <<"$", "3">>,                            token |-> "TOK_REGISTER", value |-> 3],
    [id |-> <<"$", "3", "0">>,                       token |-> "TOK_REGISTER", value |-> 30],
    [id |-> <<"$", "3", "1">>,                       token |-> "TOK_REGISTER", value |-> 31],
    [id |-> <<"$", "4">>,                            token |-> "TOK_REGISTER", value |-> 4],
    [id |-> <<"$", "5">>,                            token |-> "TOK_REGISTER", value |-> 5],
    [id |-> <<"$", "6">>,                            token |-> "TOK_REGISTER", value |-> 6],
    [id |-> <<"$", "7">>,                            token |-> "TOK_REGISTER", value |-> 7],
    [id |-> <<"$", "8">>,                            token |-> "TOK_REGISTER", value |-> 8],
    [id |-> <<"$", "9">>,                            token |-> "TOK_REGISTER", value |-> 9],
    [id |-> <<"$", "a", "0">>,                       token |-> "TOK_REGISTER", value |-> 4],
    [id |-> <<"$", "a", "1">>,                       token |-> "TOK_REGISTER", value |-> 5],
    [id |-> <<"$", "a", "2">>,                       token |-> "TOK_REGISTER", value |-> 6],
    [id |-> <<"$", "a", "3">>,                       token |-> "TOK_REGISTER", value |-> 7],
    [id |-> <<"$", "a", "t">>,                       token |-> "TOK_REGISTER", value |-> 1],
    [id |-> <<"$", "f", "p">>,                       token |-> "TOK_REGISTER", value |-> 30],
    [id |-> <<"$", "g", "p">>,                       token |-> "TOK_REGISTER", value |-> 28],
    [id |-> <<"$", "k", "0">>,                       token |-> "TOK_REGISTER", value |-> 26],
    [id |-> <<"$", "k", "1">>,                       token |-> "TOK_REGISTER", value |-> 27],
    [id |-> <<"$", "r", "a">>,                       token |-> "TOK_REGISTER", value |-> 31],
    [id |-> <<"$", "s", "0">>,                       token |-> "TOK_REGISTER", value |-> 16],
    [id |-> <<"$", "s", "1">>,                       token |-> "TOK_REGISTER", value |-> 17],
    [id |-> <<"$", "s", "2">>,                       token |-> "TOK_REGISTER", value |-> 18],
    [id |-> <<"$", "s", "3">>,                       token |-> "TOK_REGISTER", value |-> 19],
    [id |-> <<"$", "s", "4">>,                       token |-> "TOK_REGISTER", value |-> 20],
    [id |-> <<"$", "s", "5">>,                       token |-> "TOK_REGISTER", value |-> 21],
    [id |-> <<"$", "s", "6">>,                       token |-> "TOK_REGISTER", value |-> 22],
    [id |-> <<"$", "s", "7">>,                       token |-> "TOK_REGISTER", value |-> 23],
    [id |-> <<"$", "s", "p">>,                       token |-> "TOK_REGISTER", value |-> 29],
    [id |-> <<"$", "t", "0">>,                       token |-> "TOK_REGISTER", value |-> 8],
    [id |-> <<"$", "t", "1">>,                       token |-> "TOK_REGISTER", value |-> 9],
    [id |-> <<"$", "t", "2">>,                       token |-> "TOK_REGISTER", value |-> 10],
    [id |-> <<"$", "t", "3">>,                       token |-> "TOK_REGISTER", value |-> 11],
    [id |-> <<"$", "t", "4">>,                       token |-> "TOK_REGISTER", value |-> 12],
    [id |-> <<"$", "t", "5">>,                       token |-> "TOK_REGISTER", value |-> 13],
    [id |-> <<"$", "t", "6">>,                       token |-> "TOK_REGISTER", value |-> 14],
    [id |-> <<"$", "t", "7">>,                       token |-> "TOK_REGISTER", value |-> 15],
    [id |-> <<"$", "t", "8">>,                       token |-> "TOK_REGISTER", value |-> 24],
    [id |-> <<"$", "t", "9">>,                       token |-> "TOK_REGISTER", value |-> 25],
    [id |-> <<"$", "v", "0">>,                       token |-> "TOK_REGISTER", value |-> 2],
    [id |-> <<"$", "v", "1">>,                       token |-> "TOK_REGISTER", value |-> 3],
    [id |-> <<"$", "z", "e", "r", "o">>,             token |-> "TOK_REGISTER", value |-> 0],
    [id |-> <<".", "a", "l", "i", "g", "n">>,        token |-> "TOK_DIRECTIVE", value |-> 0],
    [id |-> <<".", "a", "s", "c", "i", "i">>,        token |-> "TOK_DIRECTIVE", value |-> 0],
    [id |-> <<".", "a", "s", "c", "i", "i", "z">>,   token |-> "TOK_DIRECTIVE", value |-> 0],
    [id |-> <<".", "b", "y", "t", "e">>,             token |-> "TOK_DIRECTIVE", value |-> 0],
    [id |-> <<".", "d", "a", "t", "a">>,             token |-> "TOK_DIRECTIVE", value |-> 0],
    [id |-> <<".", "h", "a", "l", "f">>,             token |-> "TOK_DIRECTIVE", value |-> 0],
    [id |-> <<".", "i", "n", "c", "l", "u", "d", "e">>, token |-> "TOK_DIRECTIVE", value |-> 0],
    [id |-> <<".", "k", "d", "a", "t", "a">>,        token |-> "TOK_DIRECTIVE", value |-> 0],
    [id |-> <<".", "k", "t", "e", "x", "t">>,        token |-> "TOK_DIRECTIVE", value |-> 0],
    [id |-> <<".", "s", "p", "a", "c", "e">>,        token |-> "TOK_DIRECTIVE", value |-> 0],
    [id |-> <<".", "t", "e", "x", "t">>,             token |-> "TOK_DIRECTIVE", value |-> 0],
    [id |-> <<".", "w", "o", "r", "d">>,             token |-> "TOK_DIRECTIVE", value |-> 0],
    [id |-> <<"a", "b", "s">>,                       token |-> "TOK_MNEMONIC", value |-> 0],
    [id |-> <<"a", "d", "d">>,                       token |-> "TOK_MNEMONIC", value |-> 0],
    [id |-> <<"a", "d", "d", "i">>,                  token |-> "TOK_MNEMONIC", value |-> 0],
    [id |-> <<"a", "d", "d", "i", "u">>,             token |-> "TOK_MNEMONIC", value |-> 0],
    [id |-> <<"a", "d", "d", "u">>,                  token |-> "TOK_MNEMONIC", value |-> 0],
    [id |-> <<"a", "n", "d">>,                       token |-> "TOK_MNEMONIC", value |-> 0],
    [id |-> <<"a", "n", "d", "i">>,                  token |-> "TOK_MNEMONIC", value |-> 0],
    [id |-> <<"b">>,                                 token |-> "TOK_MNEMONIC", value |-> 0],
    [id |-> <<"b", "e", "q">>,                       token |-> "TOK_MNEMONIC", value |-> 0],
    [id |-> <<"b", "e", "q", "z">>,                  token |-> "TOK_MNEMONIC", value |-> 0],
    [id |-> <<"b", "g", "e">>,                       token |-> "TOK_MNEMONIC", value |-> 0],
    [id |-> <<"b", "g", "e", "u">>,                  token |-> "TOK_MNEMONIC", value |-> 0],
    [id |-> <<"b", "g", "e", "z">>,                  token |-> "TOK_MNEMONIC", value |-> 0],
    [id |-> <<"b", "g", "e", "z", "a", "l">>,        token |-> "TOK_MNEMONIC", value |-> 0],
    [id |-> <<"b", "g", "t">>,                       token |-> "TOK_MNEMONIC", value |-> 0],
    [id |-> <<"b", "g", "t", "u">>,                  token |-> "TOK_MNEMONIC", value |-> 0],
    [id |-> <<"b", "g", "t", "z">>,                  token |-> "TOK_MNEMONIC", value |-> 0],
    [id |-> <<"b", "l", "e">>,                       token |-> "TOK_MNEMONIC", value |-> 0],
    [id |-> <<"b", "l", "e", "u">>,                  token |-> "TOK_MNEMONIC", value |-> 0],
    [id |-> <<"b", "l", "e", "z">>,                  token |-> "TOK_MNEMONIC", value |-> 0],
    [id |-> <<"b", "l", "t">>,                       token |-> "TOK_MNEMONIC", value |-> 0],
    [id |-> <<"b", "l", "t", "u">>,                  token |-> "TOK_MNEMONIC", value |-> 0],
    [id |-> <<"b", "l", "t", "z">>,                  token |-> "TOK_MNEMONIC", value |-> 0],
    [id |-> <<"b", "l", "t", "z", "a", "l">>,        token |-> "TOK_MNEMONIC", value |-> 0],
    [id |-> <<"b", "n", "e">>,                       token |-> "TOK_MNEMONIC", value |-> 0],
    [id |-> <<"b", "n", "e", "z">>,                  token |-> "TOK_MNEMONIC", value |-> 0],
    [id |-> <<"d", "i", "v">>,                       token |-> "TOK_MNEMONIC", value |-> 0],
    [id |-> <<"d", "i", "v", "u">>,                  token |-> "TOK_MNEMONIC", value |-> 0],
    [id |-> <<"j">>,                                 token |-> "TOK_MNEMONIC", value |-> 0],
    [id |-> <<"j", "a", "l">>,                       token |-> "TOK_MNEMONIC", value |-> 0],
    [id |-> <<"j", "r">>,                            token |-> "TOK_MNEMONIC", value |-> 0],
    [id |-> <<"l", "a">>,                            token |-> "TOK_MNEMONIC", value |-> 0],
    [id |-> <<"l", "b">>,                            token |-> "TOK_MNEMONIC", value |-> 0],
    [id |-> <<"l", "b", "u">>,                       token |-> "TOK_MNEMONIC", value |-> 0],
    [id |-> <<"l", "h">>,                            token |-> "TOK_MNEMONIC", value |-> 0],
    [id |-> <<"l", "h", "u">>,                       token |-> "TOK_MNEMONIC", value |-> 0],
    [id |-> <<"l", "i">>,                            token |-> "TOK_MNEMONIC", value |-> 0],
    [id |-> <<"l", "u", "i">>,                       token |-> "TOK_MNEMONIC", value |-> 0],
    [id |-> <<"l", "w">>,                            token |-> "TOK_MNEMONIC", value |-> 0],
    [id |-> <<"m", "f", "h", "i">>,                  token |-> "TOK_MNEMONIC", value |-> 0],
    [id |-> <<"m", "f", "l", "o">>,                  token |-> "TOK_MNEMONIC", value |-> 0],
    [id |-> <<"m", "o", "v", "e">>,                  token |-> "TOK_MNEMONIC", value |-> 0],
    [id |-> <<"m", "u", "l">>,                       token |-> "TOK_MNEMONIC", value |-> 0],
    [id |-> <<"m", "u", "l", "t">>,                  token |-> "TOK_MNEMONIC", value |-> 0],
    [id |-> <<"m", "u", "l", "t", "u">>,             token |-> "TOK_MNEMONIC", value |-> 0],
    [id |-> <<"n", "e", "g">>,                       token |-> "TOK_MNEMONIC", value |-> 0],
    [id |-> <<"n", "o", "r">>,                       token |-> "TOK_MNEMONIC", value |-> 0],
    [id |-> <<"n", "o", "t">>,                       token |-> "TOK_MNEMONIC", value |-> 0],
    [id |-> <<"o", "r">>,                            token |-> "TOK_MNEMONIC", value |-> 0],
    [id |-> <<"o", "r", "i">>,                       token |-> "TOK_MNEMONIC", value |-> 0],
    [id |-> <<"r", "o", "l">>,                       token |-> "TOK_MNEMONIC", value |-> 0],
    [id |-> <<"r", "o", "r">>,                       token |-> "TOK_MNEMONIC", value |-> 0],
    [id |-> <<"s", "b">>,                            token |-> "TOK_MNEMONIC", value |-> 0],
    [id |-> <<"s", "g", "t">>,                       token |-> "TOK_MNEMONIC", value |-> 0],
    [id |-> <<"s", "h">>,                            token |-> "TOK_MNEMONIC", value |-> 0],
    [id |-> <<"s", "l", "l">>,                       token |-> "TOK_MNEMONIC", value |-> 0],
    [id |-> <<"s", "l", "t">>,                       token |-> "TOK_MNEMONIC", value |-> 0],
    [id |-> <<"s", "l", "t", "i">>,                  token |-> "TOK_MNEMONIC", value |-> 0],
    [id |-> <<"s", "l", "t", "i", "u">>,             token |-> "TOK_MNEMONIC", value |-> 0],
    [id |-> <<"s", "l", "t", "u">>,                  token |-> "TOK_MNEMONIC", value |-> 0],
    [id |-> <<"s", "n", "e">>,                       token |-> "TOK_MNEMONIC", value |-> 0],
    [id |-> <<"s", "r", "a">>,                       token |-> "TOK_MNEMONIC", value |-> 0],
    [id |-> <<"s", "r", "l">>,                       token |-> "TOK_MNEMONIC", value |-> 0],
    [id |-> <<"s", "u", "b">>,                       token |-> "TOK_MNEMONIC", value |-> 0],
    [id |-> <<"s", "u", "b", "u">>,                  token |-> "TOK_MNEMONIC", value |-> 0],
    [id |-> <<"s", "w">>,                            token |-> "TOK_MNEMONIC", value |-> 0],
    [id |-> <<"s", "y", "s", "c", "a", "l", "l">>,   token |-> "TOK_MNEMONIC", value |-> 0],
    [id |-> <<"x", "o", "r">>,                       token |-> "TOK_MNEMONIC", value |-> 0],
    [id |-> <<"x", "o", "r", "i">>,                  token |-> "TOK_MNEMONIC", value |-> 0]
>>

reserved_table_size == Len(reserved_table)

\* the loop of get_reserved_table; entries are numbered from 0 and -1 is NULL
RECURSIVE BinarySearch(_, _, _)
BinarySearch(key, left, right) ==
    IF left > right THEN -1
    ELSE LET mid == left + ((right - left) \div 2)
             cmp_result == strcmp(reserved_table[mid + 1].id, key)
         IN  IF cmp_result = 0 THEN mid
             ELSE IF cmp_result < 0 THEN BinarySearch(key, mid + 1, right)
             ELSE BinarySearch(key, left, mid - 1)

get_reserved_table(key) == BinarySearch(key, 0, reserved_table_size - 1)

(***************************************************************************)
(* The tokenizer: tokenizer.c.  A tokenizer is the record of its stream    *)
(* (the characters of the file and the position of the next one to read),  *)
(* its lexical buffer up to bufpos, and the token its last call returned.  *)
(***************************************************************************)
EOF == "EOF"

NL == "\n"

TAB == "\t"

DQ == "\""

SQ == "'"

BSL == "\\"

LowerCase ==
    {"a", "b", "c", "d", "e", "f", "g", "h", "i", "j", "k", "l", "m", "n", "o", "p", "q",
     "r", "s", "t", "u", "v", "w", "x", "y", "z"}

UpperCase ==
    {"A", "B", "C", "D", "E", "F", "G", "H", "I", "J", "K", "L", "M", "N", "O", "P", "Q",
     "R", "S", "T", "U", "V", "W", "X", "Y", "Z"}

Digits == {"0", "1", "2", "3", "4", "5", "6", "7", "8", "9"}

\* the characters after a backslash that the two escape states accept
EscapeChars == {"t", "b", "n", "r", "0", "a", "f", "v", SQ, DQ, "?", BSL}

isxdigit(ch) == ch \in Digits \cup {"a", "b", "c", "d", "e", "f", "A", "B", "C", "D", "E", "F"}

\* isprint, for the characters of the files of the model
isprint(ch) == ch \notin {EOF, NL, TAB}

\* no token returned yet
NoToken == ""

\* no file opened
NoFile == [file |-> <<>>, pos |-> 0, lexbuf |-> <<>>, token |-> NoToken]

create_tokenizer(file) == [file |-> file, pos |-> 1, lexbuf |-> <<>>, token |-> NoToken]

\* the next character of the stream, EOF at its end
tpeekc(t) == IF t.pos > Len(t.file) THEN EOF ELSE t.file[t.pos]

\* the tokenizer after tgetc, which returned tpeekc(t): the character is
\* stored in the lexical buffer, also when it is EOF
tgetc(t) ==
    [t EXCEPT !.pos = IF t.pos > Len(t.file) THEN @ ELSE @ + 1,
              !.lexbuf = Append(@, tpeekc(t))]

\* bufpos--
DropLast(t) == [t EXCEPT !.lexbuf = SubSeq(@, 1, Len(@) - 1)]

\* ungetc(EOF) leaves the stream as it is
tungetc(ch, t) == DropLast([t EXCEPT !.pos = IF ch = EOF THEN @ ELSE @ - 1])

Go(state, t) == [state |-> state, t |-> t]

\* a variant of init_fsm that puts an unexpected character back
init_fsm_unget(t, ch) ==
    CASE ch = ":" -> Go("colon_accept", tgetc(t))
      [] ch = "," -> Go("comma_accept", tgetc(t))
      [] ch = "(" -> Go("left_paren_accept", tgetc(t))
      [] ch = ")" -> Go("right_paren_accept", tgetc(t))
      [] ch = NL -> Go("eol_accept", tgetc(t))
      [] ch \in UpperCase \cup LowerCase \cup {"$", "_", "."} ->
           Go("identifier_state", tgetc(t))
      [] ch = DQ -> Go("string_state", DropLast(tgetc(t)))
      [] ch = SQ -> Go("character_state", tgetc(t))
      [] ch = "#" -> Go("comment_state", tgetc(t))
      [] ch = "-" -> Go("negative_state", tgetc(t))
      [] ch \in Digits \ {"0"} -> Go("integer_state", tgetc(t))
      [] ch = "0" -> Go("zero_state", tgetc(t))
      [] ch \in {" ", TAB} -> Go("init_state", DropLast(tgetc(t)))
      [] ch = EOF -> Go("eof_accept", tungetc(ch, tgetc(t)))
      [] OTHER -> Go("invalid_state", tungetc(ch, tgetc(t)))

\* ch: the character that tgetc returns
init_fsm(t, ch) ==
    CASE ch = ":" -> Go("colon_accept", tgetc(t))
      [] ch = "," -> Go("comma_accept", tgetc(t))
      [] ch = "(" -> Go("left_paren_accept", tgetc(t))
      [] ch = ")" -> Go("right_paren_accept", tgetc(t))
      [] ch = NL -> Go("eol_accept", tgetc(t))
      [] ch \in UpperCase \cup LowerCase \cup {"$", "_", "."} ->
           Go("identifier_state", tgetc(t))
      [] ch = DQ -> Go("string_state", DropLast(tgetc(t)))
      [] ch = SQ -> Go("character_state", tgetc(t))
      [] ch = "#" -> Go("comment_state", tgetc(t))
      [] ch = "-" -> Go("negative_state", tgetc(t))
      [] ch \in Digits \ {"0"} -> Go("integer_state", tgetc(t))
      [] ch = "0" -> Go("zero_state", tgetc(t))
      [] ch \in {" ", TAB} -> Go("init_state", DropLast(tgetc(t)))
      [] ch = EOF -> Go("eof_accept", tungetc(ch, tgetc(t)))
      [] OTHER -> Go("invalid_state", tgetc(t))

identifier_fsm(t, ch) ==
    IF ch \in UpperCase \cup LowerCase \cup Digits \cup {"_"}
    THEN Go("identifier_state", tgetc(t))
    ELSE Go("identifier_accept", tungetc(ch, tgetc(t)))

integer_fsm(t, ch) ==
    IF ch \in Digits
    THEN Go("integer_state", tgetc(t))
    ELSE Go("integer_accept", tungetc(ch, tgetc(t)))

\* after 0x the next character is looked at with tpeekc; when it is no hex
\* digit the x is put back (a second character of pushback, which the C
\* library of the build provides)
zero_fsm(t, ch) ==
    CASE ch \in {"x", "X"} ->
           IF isxdigit(tpeekc(tgetc(t)))
           THEN Go("hex_state", tgetc(t))
           ELSE Go("integer_accept", tungetc(ch, tgetc(t)))
      [] ch \in Digits -> Go("integer_state", tgetc(t))
      [] OTHER -> Go("integer_accept", tungetc(ch, tgetc(t)))

hex_fsm(t, ch) ==
    IF isxdigit(ch)
    THEN Go("hex_state", tgetc(t))
    ELSE Go("integer_accept", tungetc(ch, tgetc(t)))

comment_fsm(t, ch) ==
    IF ch \in {EOF, NL}
    THEN Go("comment_accept", tungetc(ch, tgetc(t)))
    ELSE Go("comment_state", tgetc(t))

negative_fsm(t, ch) ==
    CASE ch = "0" -> Go("zero_state", tgetc(t))
      [] ch \in Digits \ {"0"} -> Go("integer_state", tgetc(t))
      [] OTHER -> Go("invalid_state", tungetc(ch, tgetc(t)))

string_fsm(t, ch) ==
    CASE ch = DQ -> Go("string_accept", DropLast(tgetc(t)))
      [] ch = BSL -> Go("string_escape", tgetc(t))
      [] ch \in {EOF, NL} -> Go("invalid_state", tungetc(ch, tgetc(t)))
      [] OTHER -> Go("string_state", tgetc(t))

character_fsm(t, ch) ==
    CASE ch = BSL -> Go("escape_state", tgetc(t))
      [] isprint(ch) -> Go("quote_state", tgetc(t))
      [] OTHER -> Go("invalid_state", tungetc(ch, tgetc(t)))

string_escape_fsm(t, ch) ==
    IF ch \in EscapeChars
    THEN Go("string_state", tgetc(t))
    ELSE Go("invalid_state", tungetc(ch, tgetc(t)))

escape_fsm(t, ch) ==
    IF ch \in EscapeChars
    THEN Go("quote_state", tgetc(t))
    ELSE Go("invalid_state", tungetc(ch, tgetc(t)))

quote_fsm(t, ch) ==
    IF ch = SQ
    THEN Go("character_accept", tgetc(t))
    ELSE Go("invalid_state", tungetc(ch, tgetc(t)))

\* return_token skips the blanks that follow the lexeme
RECURSIVE SkipBlanks(_)
SkipBlanks(t) ==
    IF tpeekc(t) \in {" ", TAB} THEN SkipBlanks([t EXCEPT !.pos = @ + 1]) ELSE t

\* the token of an identifier: that of its entry in the reserved table
Classify(index) == IF index = -1 THEN "TOK_IDENTIFIER" ELSE reserved_table[index + 1].token

\* return_token: the literals of the files of the model are shorter than
\* one that does not fit 32 bits, so that TOK_INTEGER is returned as it is
return_token(token, t) ==
    [SkipBlanks(t) EXCEPT
       !.token = IF token = "TOK_IDENTIFIER"
                 THEN Classify(get_reserved_table(t.lexbuf))
                 ELSE token]

AcceptToken ==
    [integer_accept |-> "TOK_INTEGER", character_accept |-> "TOK_INTEGER",
     identifier_accept |-> "TOK_IDENTIFIER", comma_accept |-> "TOK_COMMA",
     colon_accept |-> "TOK_COLON", eol_accept |-> "TOK_EOL",
     left_paren_accept |-> "TOK_LPAREN", right_paren_accept |-> "TOK_RPAREN",
     string_accept |-> "TOK_STRING", eof_accept |-> "TOK_NULL",
     invalid_state |-> "TOK_INVALID"]

\* one turn of the loop of get_next_token in a state that is not final
Transition(next_state, t) ==
    CASE next_state = "init_state" -> init_fsm([t EXCEPT !.lexbuf = <<>>], tpeekc(t))
      [] next_state = "identifier_state" -> identifier_fsm(t, tpeekc(t))
      [] next_state = "integer_state" -> integer_fsm(t, tpeekc(t))
      [] next_state = "zero_state" -> zero_fsm(t, tpeekc(t))
      [] next_state = "hex_state" -> hex_fsm(t, tpeekc(t))
      [] next_state = "comment_state" -> comment_fsm(t, tpeekc(t))
      [] next_state = "negative_state" -> negative_fsm(t, tpeekc(t))
      [] next_state = "string_state" -> string_fsm(t, tpeekc(t))
      [] next_state = "comment_accept" -> Go("init_state", t)
      [] next_state = "character_state" -> character_fsm(t, tpeekc(t))
      [] next_state = "escape_state" -> escape_fsm(t, tpeekc(t))
      [] next_state = "quote_state" -> quote_fsm(t, tpeekc(t))
      [] next_state = "string_escape" -> string_escape_fsm(t, tpeekc(t))

RECURSIVE RunFsm(_)
RunFsm(r) ==
    IF r.state \in DOMAIN AcceptToken
    THEN return_token(AcceptToken[r.state], r.t)
    ELSE RunFsm(Transition(r.state, r.t))

get_next_token(t) == RunFsm(Go("init_state", t))

\* no key inserted, none looked up
NoLookups == [returned |-> [k \in {} |-> NULL], next |-> 0, key |-> <<>>, entry |-> NULL]

\* no search made
NoProbe == [key |-> <<>>, index |-> -1]

(***************************************************************************)
(* State                                                                   *)
(***************************************************************************)
VARIABLES
    asm,            \* struct assembler, with the heap bookkeeping of its nodes
    phase,          \* "created", "parse", "replay", "done", "exit", "crashed";
                    \* "scan" while the tokenizer is studied on its own
    head,           \* program_cfg: position in decl_symlist
    instr_ref,      \* program_cfg: position in the current symbol's instr_list
    nlines,         \* source lines read so far
    assemble_only,  \* main: the -a option
    object_written, \* main: write_object_file was called
    last,           \* the step just taken: its kind, its line and its record
    history,        \* what the source said so far, which records were deferred and
                    \* replayed, and which addresses the replay wrote
    symtab,         \* struct symbol_table: the hash table of symtable.c
    symlog,         \* the entries insert returned, and the last lookup and its result
    probe,          \* the last search of the reserved-word table and its result
    scanner         \* struct tokenizer: the stream, the buffer and the last token

\* the tables that are studied on their own
tables == <<symtab, symlog, probe, scanner>>

vars ==
    <<asm, phase, head, instr_ref, nlines, assemble_only, object_written, last, history,
      tables>>

Step(kind, st, env, node) == [kind |-> kind, st |-> st, env |-> env, node |-> node]

NoEnv == [opens |-> FALSE, first |-> "TOK_NULL", nxt |-> "TOK_NULL"]

\* create_assembler
create_assembler ==
    [segment |-> SEGMENT_TEXT,
     segment_offset |-> SEGMENT_OFFSET_BASE,
     segment_memory_offset |-> [s \in Segments |-> <<0, 0>>],
     segment_memory_size |-> [s \in Segments |-> 0],
     segment_memory |-> [s \in Segments |-> [o \in {} |-> 0]],
     status |-> ASSEMBLER_STATUS_NULL,
     lookahead |-> "TOK_NULL",
     tokenizer_list |-> 0,
     symbol_table |-> [k \in {} |-> 0],
     decl_symlist |-> <<>>,
     nalloc |-> 0,
     freed |-> {},
     ub |-> FALSE,
     overflow |-> FALSE,
     drained |-> 0,
     writes |-> <<>>]

Init ==
    /\ asm = create_assembler
    /\ phase = "created"
    /\ head = 1
    /\ instr_ref = 1
    /\ nlines = 0
    /\ assemble_only \in BOOLEAN
    /\ object_written = FALSE
    /\ last = Step("create", Blank, NoEnv, NoNode)
    /\ history = [defined_at |-> [k \in {} |-> 0], used |-> {}, forward |-> {},
                  mnemonics |-> <<>>, replayed |-> <<>>, reserved |-> [id \in {} |-> 0],
                  touched |-> <<>>, deferred |-> {}, rewritten |-> {},
                  written |-> {}]
    /\ symtab = create_symbol_table
    /\ symlog = NoLookups
    /\ probe = NoProbe
    /\ scanner = NoFile

(***************************************************************************)
(* Actions                                                                 *)
(***************************************************************************)
\* execute_assembler up to the call of program_cfg: one source file is named
\* on the command line; it may fail to open
Execute ==
    /\ phase = "created"
    /\ \E opens \in BOOLEAN, first \in {"TOK_LINE", "TOK_NULL"} :
         IF ~opens
         THEN /\ asm' = [asm EXCEPT !.status = ASSEMBLER_STATUS_FAIL]
              /\ phase' = "done"
         ELSE /\ asm' = [asm EXCEPT !.tokenizer_list = 1,
                                    !.lookahead = first,
                                    !.symbol_table = [k \in {} |-> 0],
                                    !.decl_symlist = <<>>,
                                    !.segment = SEGMENT_TEXT,
                                    !.segment_offset = SEGMENT_OFFSET_BASE,
                                    !.segment_memory_offset = [s \in Segments |-> <<0, 0>>],
                                    !.status = ASSEMBLER_STATUS_OK]
              /\ phase' = "parse"
    /\ last' = Step("execute", Blank, NoEnv, NoNode)
    /\ UNCHANGED <<head, instr_ref, nlines, assemble_only, object_written, history, tables>>

\* the label that the first line of an included file defines when that line
\* starts with an identifier
IncludedLabel == "a"

\* what the input may hold for one line and after it.  `first' is the first
\* token of the included file: the file is empty, or its first line is blank,
\* or a statement, or `IncludedLabel:'
Envs(st, S) ==
    {e \in [opens : BOOLEAN,
            first : {"TOK_EOL", "TOK_NULL", "TOK_MNEMONIC", "TOK_IDENTIFIER"},
            nxt : {"TOK_LINE", "TOK_NULL"}] :
        /\ e.nxt = "TOK_LINE" => nlines + 1 < MaxLines
        /\ IF st = IncludeLine
           THEN e.opens => (e.first # "TOK_NULL" => nlines + 1 < MaxLines)
           ELSE ~e.opens /\ e.first = "TOK_NULL"
        /\ (st = IncludeLine /\ ~e.opens) => e.first = "TOK_NULL"}

\* x rounded up to a multiple of m, for m = 1, 2 or 4
RoundUp(x, m) == Add32(x, <<0, (m - (x[2] % m)) % m>>)

LabelOperands(st) ==
    {st.operand_list[i].identifier :
        i \in {j \in 1 .. Len(st.operand_list) : st.operand_list[j].operand = OPERAND_LABEL}}

\* the label that the text read in this step defines, "" when none: the
\* label of line st, or the one on the first line of the file it includes
DefinedBy(st, env) ==
    IF st.colon THEN st.label
    ELSE IF st = IncludeLine /\ env.opens /\ env.first = "TOK_IDENTIFIER"
    THEN IncludedLabel ELSE ""

\* the history after reading line st: where the source first defines a label
\* (the cursor, rounded up when the label stands in front of .word or
\* .half), which labels were written as operands, which of them before any
\* definition, and the mnemonics in order
Read(st, env) ==
    LET m == CASE st.mnemonic = ".word" -> 4 [] st.mnemonic = ".half" -> 2 [] OTHER -> 1
        site == [segment |-> asm.segment,
                 offset |-> RoundUp(asm.segment_offset[asm.segment], m)]
        k == DefinedBy(st, env)
    IN  [history EXCEPT
           !.defined_at = IF k # "" /\ k \notin DOMAIN @ THEN (k :> site) @@ @ ELSE @,
           !.used = @ \cup LabelOperands(st),
           !.forward = @ \cup (LabelOperands(st) \ (DOMAIN history.defined_at \cup {k})),
           !.mnemonics = IF st.mnemonic = "" THEN @ ELSE Append(@, st.mnemonic)]

\* the records on the pending lists of the symbols
Pending(a) ==
    UNION {{a.symbol_table[k].instr_list[i] : i \in 1 .. Len(a.symbol_table[k].instr_list)} :
             k \in DOMAIN a.symbol_table}

\* the bytes from the snapshot cursor of the pending record `id' to the cursor
Advance(a, id) ==
    LET node == CHOOSE p \in Pending(a) : p.id = id
    IN  ToNat(Sub32(a.segment_offset[node.segment], node.offset))

\* the history h after a statement left the assembler as a: what the
\* statement reserved, when its record became pending
Reserved(h, a) ==
    [h EXCEPT !.reserved =
        [id \in {p.id : p \in Pending(a)} \ DOMAIN h.reserved |-> Advance(a, id)] @@ @]

\* the history h after a statement left the assembler as a: the records that
\* were pending at some time
Deferred(h, a) == [h EXCEPT !.deferred = @ \cup Pending(a)]

\* the addresses of the bytes of the writes W
Addresses(W) ==
    UNION {{<<W[i].seg, Add32(W[i].addr, <<0, j - 1>>)>> : j \in 1 .. Len(W[i].bytes)} :
             i \in 1 .. Len(W)}

\* the history h after a statement left the assembler as a: the addresses the
\* statements of the parsing pass wrote
Wrote(h, a) == [h EXCEPT !.written = @ \cup Addresses(a.writes)]

\* the label operands at positions i and after that line st brought into the
\* symbol table of a, in the order in which they are written
RECURSIVE FirstUses(_, _, _, _)
FirstUses(st, a, i, seen) ==
    IF i > Len(st.operand_list) THEN <<>>
    ELSE IF /\ st.operand_list[i].operand = OPERAND_LABEL
            /\ st.operand_list[i].identifier \in DOMAIN a.symbol_table
            /\ st.operand_list[i].identifier \notin seen
    THEN <<st.operand_list[i].identifier>>
         \o FirstUses(st, a, i + 1, seen \cup {st.operand_list[i].identifier})
    ELSE FirstUses(st, a, i + 1, seen)

\* the history h after line st left the assembler as a: the symbols in the
\* order in which an operand first named them while they were not in the
\* table
Touched(h, st, a) ==
    [h EXCEPT !.touched =
        @ \o FirstUses(st, a, 1,
                       DOMAIN asm.symbol_table \cup (IF st.colon THEN {st.label} ELSE {}))]

\* one call of instruction_cfg from instruction_list_cfg, on a line drawn from S
ParseLine(S) ==
    /\ phase = "parse"
    /\ asm.lookahead \in {"TOK_LINE", "TOK_EOL"}
    /\ \E st \in S :
         /\ asm.lookahead = "TOK_EOL" => st = Blank
         /\ st = IncludeLine => asm.tokenizer_list <= MaxInclude
         /\ \E env \in Envs(st, S) :
              /\ asm' = instruction_cfg([asm EXCEPT !.writes = <<>>, !.drained = 0], st, env)
              /\ last' = Step("line", st, env, NoNode)
              /\ history' = Wrote(Touched(Deferred(Reserved(Read(st, env), asm'), asm'), st, asm'),
                                  asm')
    /\ nlines' = nlines + 1
    /\ UNCHANGED <<phase, head, instr_ref, assemble_only, object_written, tables>>

\* instruction_list_cfg at the end of a file: pop its tokenizer and go on
\* with the one below it, or return to program_cfg
PopTokenizer ==
    /\ phase = "parse"
    /\ asm.lookahead = "TOK_NULL"
    /\ IF asm.tokenizer_list = 1
       THEN /\ asm' = [asm EXCEPT !.tokenizer_list = 0, !.writes = <<>>, !.drained = 0]
            /\ phase' = "replay"
       ELSE /\ \E nxt \in {"TOK_LINE", "TOK_NULL"} :
                 /\ nxt = "TOK_LINE" => nlines < MaxLines
                 /\ asm' = [asm EXCEPT !.tokenizer_list = @ - 1, !.lookahead = nxt,
                                       !.writes = <<>>, !.drained = 0]
            /\ phase' = "parse"
    /\ head' = 1
    /\ instr_ref' = 1
    /\ last' = Step("pop", Blank, NoEnv, NoNode)
    /\ UNCHANGED <<nlines, assemble_only, object_written, history, tables>>

RECURSIVE DestroyAll(_, _, _)
DestroyAll(a, list, i) ==
    IF i > Len(list) THEN a ELSE DestroyAll(destroy_instruction(a, list[i]), list, i + 1)

\* program_cfg: the symbol at head is still undefined
VisitUndefined ==
    /\ phase = "replay"
    /\ head <= Len(asm.decl_symlist)
    /\ LET sym_entry == asm.symbol_table[asm.decl_symlist[head]]
       IN  /\ sym_entry.status = SYMBOL_UNDEFINED
           /\ asm' = [DestroyAll([asm EXCEPT !.writes = <<>>], sym_entry.instr_list, 1)
                        EXCEPT !.status = ASSEMBLER_STATUS_FAIL]
    /\ head' = head + 1
    /\ instr_ref' = 1
    /\ last' = Step("undefined", Blank, NoEnv, NoNode)
    /\ UNCHANGED <<phase, nlines, assemble_only, object_written, history, tables>>

\* a variant of replay_record that encodes at the cursor left by the parse
replay_record_at_cursor(a, node) ==
    LET a0 == [a EXCEPT !.ub = @ \/ node.id \in a.freed, !.writes = <<>>]
        r == IF node.mnemonic \in Directives
             THEN check_directive(a0, node, NoEnv)
             ELSE assemble_instruction(a0, node)
    IN  destroy_instruction(r.a, node)

\* program_cfg: one pending record of a defined symbol
replay_record(a, node) ==
    LET a0 == [a EXCEPT !.segment = node.segment,
                        !.segment_offset[node.segment] = node.offset,
                        !.ub = @ \/ node.id \in a.freed,
                        !.writes = <<>>]
        r == IF node.mnemonic \in Directives
             THEN check_directive(a0, node, NoEnv)
             ELSE assemble_instruction(a0, node)
    IN  destroy_instruction(r.a, node)

ReplayRecord ==
    /\ phase = "replay"
    /\ head <= Len(asm.decl_symlist)
    /\ LET sym_entry == asm.symbol_table[asm.decl_symlist[head]]
       IN  /\ sym_entry.status # SYMBOL_UNDEFINED
           /\ instr_ref <= Len(sym_entry.instr_list)
           /\ asm' = replay_record(asm, sym_entry.instr_list[instr_ref])
           /\ last' = Step("replay", Blank, NoEnv, sym_entry.instr_list[instr_ref])
           /\ history' = [history EXCEPT
                            !.replayed = Append(@, sym_entry.instr_list[instr_ref].id),
                            !.rewritten = @ \cup Addresses(asm'.writes)]
    /\ instr_ref' = instr_ref + 1
    /\ UNCHANGED <<phase, head, nlines, assemble_only, object_written, tables>>

\* program_cfg: the pending list of a defined symbol is exhausted
NextSymbol ==
    /\ phase = "replay"
    /\ head <= Len(asm.decl_symlist)
    /\ LET sym_entry == asm.symbol_table[asm.decl_symlist[head]]
       IN  /\ sym_entry.status # SYMBOL_UNDEFINED
           /\ instr_ref > Len(sym_entry.instr_list)
    /\ head' = head + 1
    /\ instr_ref' = 1
    /\ asm' = [asm EXCEPT !.writes = <<>>]
    /\ last' = Step("next", Blank, NoEnv, NoNode)
    /\ UNCHANGED <<phase, nlines, assemble_only, object_written, history, tables>>

\* program_cfg returns; execute_assembler returns the status
Return ==
    /\ phase = "replay"
    /\ head > Len(asm.decl_symlist)
    /\ phase' = "done"
    /\ asm' = [asm EXCEPT !.writes = <<>>]
    /\ last' = Step("return", Blank, NoEnv, NoNode)
    /\ UNCHANGED <<head, instr_ref, nlines, assemble_only, object_written, history, tables>>

\* main after execute_assembler: the object file is written when the status
\* is ok, -a was not given and the output file opens
Main ==
    /\ phase = "done"
    /\ phase' = "exit"
    /\ \E fopen_ok \in BOOLEAN :
         object_written' = (asm.status = ASSEMBLER_STATUS_OK /\ ~assemble_only /\ fopen_ok)
    /\ last' = Step("main", Blank, NoEnv, NoNode)
    /\ UNCHANGED <<asm, head, instr_ref, nlines, assemble_only, history, tables>>

\* after an undefined operation (a copy outside the buffer, a node freed
\* twice) the process may be killed at any later point, or run on
Crash ==
    /\ phase \in {"parse", "replay"}
    /\ asm.ub
    /\ phase' = "crashed"
    /\ last' = Step("crash", Blank, NoEnv, NoNode)
    /\ UNCHANGED <<asm, head, instr_ref, nlines, assemble_only, object_written, history, tables>>

Next ==
    \/ Execute
    \/ ParseLine(Lines)
    \/ PopTokenizer
    \/ VisitUndefined
    \/ ReplayRecord
    \/ NextSymbol
    \/ Return
    \/ Main
    \/ Crash

Spec == Init /\ [][Next]_vars

(***************************************************************************)
(* Programs made of one family of statements: all branch forms, and all    *)
(* pseudo-instruction forms.  At most MaxForms statements of the family    *)
(* occur in one program, between lines that define the label and move the  *)
(* cursor.                                                                 *)
(***************************************************************************)
\* statements of the family under study in one program
MaxForms == 1

FormsSoFar(F) ==
    Cardinality({i \in 1 .. Len(history.mnemonics) : history.mnemonics[i] \in F})

BranchMnemonics ==
    {"beq", "bne", "bgez", "bgezal", "bgtz", "blez", "bltz", "bltzal", "beqz", "bnez",
     "b", "bge", "ble", "blt", "bgt", "bleu", "bgeu", "bltu", "bgtu"}

BranchForms ==
    {Stmt("", FALSE, m, <<Reg(8), rt, Lab("a")>>) :
        m \in {"beq", "bne", "bge", "ble", "blt", "bgt", "bleu", "bgeu", "bltu", "bgtu"},
        rt \in {Reg(9), Imm(<<0, 5>>)}}
    \cup {Stmt("", FALSE, m, <<Reg(8), Lab("a")>>) :
            m \in {"bgez", "bgezal", "bgtz", "blez", "bltz", "bltzal", "beqz", "bnez"}}
    \cup {Stmt("", FALSE, "b", <<Lab("a")>>)}

BranchLines ==
    {Stmt("a", TRUE, "", <<>>),
     Stmt("", FALSE, "syscall", <<>>),
     Stmt("", FALSE, ".space", <<Imm(<<0, 2>>)>>)}
    \cup (IF FormsSoFar(BranchMnemonics) < MaxForms THEN BranchForms ELSE {})

PsuedoForms ==
    {Stmt("", FALSE, m, <<Reg(8), Reg(9)>>) : m \in {"move", "not", "abs", "neg"}}
    \cup {Stmt("", FALSE, "li", <<Reg(8), Imm(v)>>) :
            v \in {<<0, 5>>, <<0, 32768>>, <<1, 9029>>, <<65535, 65535>>}}
    \cup {Stmt("", FALSE, "la", <<Reg(8), Lab("a")>>)}
    \cup {Stmt("", FALSE, m, <<Reg(8), Lab("a")>>) : m \in {"beqz", "bnez"}}
    \cup {Stmt("", FALSE, m, <<Reg(8), rt, Lab("a")>>) :
            m \in {"bge", "ble", "blt", "bgt", "bleu", "bgeu", "bltu", "bgtu"},
            rt \in {Reg(9), Imm(<<0, 5>>)}}
    \cup {Stmt("", FALSE, m, <<Reg(8), Reg(9), Imm(<<0, 3>>)>>) : m \in {"ror", "rol"}}
    \cup {Stmt("", FALSE, m, <<Reg(8), Reg(9), Reg(10)>>) : m \in {"sgt", "sne"}}
    \cup {Stmt("", FALSE, "b", <<Lab("a")>>)}

PsuedoLines ==
    {Stmt("a", TRUE, "", <<>>), Stmt("", FALSE, "syscall", <<>>)}
    \cup (IF FormsSoFar(PsuedoMnemonics) < MaxForms THEN PsuedoForms ELSE {})

NextBranch ==
    \/ Execute
    \/ ParseLine(BranchLines)
    \/ PopTokenizer
    \/ VisitUndefined
    \/ ReplayRecord
    \/ NextSymbol
    \/ Return
    \/ Main

SpecBranch == Init /\ [][NextBranch]_vars

NextPsuedo ==
    \/ Execute
    \/ ParseLine(PsuedoLines)
    \/ PopTokenizer
    \/ VisitUndefined
    \/ ReplayRecord
    \/ NextSymbol
    \/ Return
    \/ Main

SpecPsuedo == Init /\ [][NextPsuedo]_vars

(***************************************************************************)
(* Programs that move the cursor a long way: .space and .align with large  *)
(* operands, in the text and data segments, around statements that write   *)
(* and a jump that is deferred.                                            *)
(***************************************************************************)
CursorLines ==
    {Stmt("a", TRUE, "", <<>>),
     Stmt("", FALSE, "syscall", <<>>),
     Stmt("", FALSE, "j", <<Lab("a")>>),
     Stmt("", FALSE, ".data", <<>>),
     Stmt("", FALSE, ".word", <<Imm(<<0, 7>>)>>),
     Stmt("", FALSE, ".space", <<Imm(<<0, 2000>>)>>),
     Stmt("", FALSE, ".space", <<Imm(<<4000, 0>>)>>),
     Stmt("", FALSE, ".space", <<Imm(Minus4)>>),
     Stmt("", FALSE, ".align", <<Imm(<<0, 11>>)>>),
     Stmt("", FALSE, ".align", <<Imm(<<0, 30>>)>>)}

NextCursor ==
    \/ Execute
    \/ ParseLine(CursorLines)
    \/ PopTokenizer
    \/ VisitUndefined
    \/ ReplayRecord
    \/ NextSymbol
    \/ Return
    \/ Main
    \/ Crash

SpecCursor == Init /\ [][NextCursor]_vars

(***************************************************************************)
(* Programs that switch between the four segments and assemble             *)
(* instructions and data in each of them.                                  *)
(***************************************************************************)
SegmentLines ==
    {Stmt("", FALSE, m, <<>>) : m \in {".text", ".data", ".ktext", ".kdata", "syscall"}}
    \cup {Stmt("a", TRUE, "syscall", <<>>),
          Stmt("", FALSE, "li", <<Reg(8), Imm(<<0, 5>>)>>),
          Stmt("", FALSE, "j", <<Lab("a")>>),
          Stmt("", FALSE, "addu", <<Reg(8), Reg(9)>>),
          Stmt("", FALSE, ".byte", <<Imm(<<0, 7>>)>>)}

NextSegment ==
    \/ Execute
    \/ ParseLine(SegmentLines)
    \/ PopTokenizer
    \/ VisitUndefined
    \/ ReplayRecord
    \/ NextSymbol
    \/ Return
    \/ Main

SpecSegment == Init /\ [][NextSegment]_vars

(***************************************************************************)
(* Programs with one statement of each shape that can be deferred, at a    *)
(* cursor that is or is not a multiple of four, with its labels defined    *)
(* later or never.                                                         *)
(***************************************************************************)
DeferMnemonics ==
    {"j", "jal", "la", "lw", "sw", ".word"} \cup BranchMnemonics

DeferForms ==
    BranchForms
    \cup {Stmt("", FALSE, m, <<Lab("a")>>) : m \in {"j", "jal"}}
    \cup {Stmt("", FALSE, m, <<Reg(8), Lab("a")>>) : m \in {"la", "lw", "sw"}}
    \cup {Stmt("", FALSE, ".word", ops) :
            ops \in {<<Lab("a")>>, <<Lab("a"), Lab("b")>>, <<Imm(<<0, 7>>), Lab("a")>>}}

DeferLines ==
    {Stmt(k, TRUE, "", <<>>) : k \in Labels}
    \cup {Stmt("", FALSE, "syscall", <<>>),
          Stmt("", FALSE, ".space", <<Imm(<<0, 1>>)>>)}
    \cup (IF FormsSoFar(DeferMnemonics) < MaxForms THEN DeferForms ELSE {})

NextDefer ==
    \/ Execute
    \/ ParseLine(DeferLines)
    \/ PopTokenizer
    \/ VisitUndefined
    \/ ReplayRecord
    \/ NextSymbol
    \/ Return
    \/ Main

SpecDefer == Init /\ [][NextDefer]_vars

(***************************************************************************)
(* Programs with a label in front of .word or .half, in the text and data  *)
(* segments, at cursors of every remainder modulo four, the label being    *)
(* new, awaited by a jump, or defined already.                             *)
(***************************************************************************)
AlignLines ==
    {Stmt("a", TRUE, m, <<Imm(<<0, 7>>)>>) : m \in {".word", ".half"}}
    \cup {Stmt("b", TRUE, ".word", <<Lab("a")>>),
          Stmt("a", TRUE, "", <<>>),
          Stmt("", FALSE, "j", <<Lab("a")>>),
          Stmt("", FALSE, ".data", <<>>),
          Stmt("", FALSE, ".space", <<Imm(<<0, 1>>)>>),
          Stmt("", FALSE, ".space", <<Imm(<<0, 2>>)>>)}

NextAlign ==
    \/ Execute
    \/ ParseLine(AlignLines)
    \/ PopTokenizer
    \/ VisitUndefined
    \/ ReplayRecord
    \/ NextSymbol
    \/ Return
    \/ Main

SpecAlign == Init /\ [][NextAlign]_vars

(***************************************************************************)
(* Programs with instructions that take an immediate, and li, the          *)
(* immediate being inside and outside the 16-bit range of the instruction. *)
(***************************************************************************)
Immediates ==
    {<<0, 5>>, <<0, 32767>>, <<0, 32768>>, <<0, 65535>>, <<1, 0>>, <<1, 9029>>,
     <<32768, 0>>, <<65535, 32767>>, <<65535, 32768>>, <<65535, 65535>>}

ImmForms ==
    {Stmt("", FALSE, m, <<Reg(8), Reg(9), Imm(v)>>) : m \in ImmMnemonics, v \in Immediates}

LiForms ==
    {Stmt("", FALSE, "li", <<Reg(rd), Imm(v)>>) : rd \in {1, 8}, v \in Immediates}

ImmLines ==
    {Stmt("", FALSE, "syscall", <<>>)}
    \cup (IF FormsSoFar(ImmMnemonics \cup {"li"}) < MaxForms
          THEN ImmForms \cup LiForms ELSE {})

NextImmediate ==
    \/ Execute
    \/ ParseLine(ImmLines)
    \/ PopTokenizer
    \/ Return
    \/ Main

SpecImmediate == Init /\ [][NextImmediate]_vars

(***************************************************************************)
(* The symbol table on its own: distinct keys are inserted one after the   *)
(* other, and between the inserts keys are looked up.                      *)
(***************************************************************************)
\* the keys that may be inserted
MaxKeys == 24

\* two-letter keys, distinct for distinct i; keys with the same sum of
\* letters share a bucket of the table of 32
Key(i) == <<97 + (i % 7), 97 + (i \div 7)>>

\* insert_symbol_table of the next key: any key first, then the keys that
\* follow it in cyclic order
InsertKey ==
    /\ symtab.length < MaxKeys
    /\ \E i \in 0 .. (MaxKeys - 1) :
         /\ symtab.length > 0 => i = symlog.next
         /\ LET item == [key |-> Key(i), id |-> symtab.length + 1]
            IN  /\ symtab' = insert_symbol_table_st(symtab, item)
                /\ symlog' = [returned |-> (Key(i) :> item) @@ symlog.returned,
                              next |-> (i + 1) % MaxKeys,
                              key |-> <<>>, entry |-> NULL]
    /\ UNCHANGED <<asm, phase, head, instr_ref, nlines, assemble_only, object_written,
                   last, history, probe, scanner>>

\* get_symbol_table of a key that was inserted, or of one that was not
LookupKey ==
    /\ \E i \in 0 .. (MaxKeys - 1) :
         symlog' = [symlog EXCEPT !.key = Key(i),
                                  !.entry = get_symbol_table_st(symtab, Key(i))]
    /\ UNCHANGED <<asm, phase, head, instr_ref, nlines, assemble_only, object_written,
                   last, history, symtab, probe, scanner>>

NextSymtab ==
    \/ InsertKey
    \/ LookupKey

SpecSymtab == Init /\ [][NextSymtab]_vars

(***************************************************************************)
(* The reserved keyword table on its own: a key is searched.               *)
(***************************************************************************)
\* the keys searched: each key of the table, and keys that are not in it
\* (before the first, between two, a prefix, an extension, after the last)
SearchKeys ==
    {reserved_table[i].id : i \in 1 .. reserved_table_size}
    \cup {<<"$">>, <<"$", "3", "2">>, <<".", "w", "o", "r">>, <<"a">>,
          <<"b", "e", "q", "z", "z">>, <<"m", "u">>, <<"s", "y", "s">>, <<"x", "o", "r", "i", "i">>}

\* get_reserved_table(key)
Search ==
    /\ \E key \in SearchKeys :
         probe' = [key |-> key, index |-> get_reserved_table(key)]
    /\ UNCHANGED <<asm, phase, head, instr_ref, nlines, assemble_only, object_written,
                   last, history, symtab, symlog, scanner>>

NextReserved == Search

SpecReserved == Init /\ [][NextReserved]_vars

(***************************************************************************)
(* The run to its end.  The assembler reads the lines of Lines; or, at the  *)
(* grain of characters, a tokenizer is created on a file of at most        *)
(* MaxChars characters and get_next_token is called, as                    *)
(* instruction_list_cfg, match_cfg and report_cfg call it, until it        *)
(* returns TOK_NULL.                                                       *)
(***************************************************************************)
\* characters in a file given to the tokenizer
MaxChars == 3

\* a letter, the x of 0x, the digits 0 and 1, the characters that open a
\* negative number, a string, a character and a comment, the backslash
\* (which opens an escape and starts no token), the end of line and a blank
Chars == {"a", "x", "0", "1", "-", DQ, SQ, BSL, "#", NL, " "}

Files == UNION {[1 .. n -> Chars] : n \in 0 .. MaxChars}

\* create_tokenizer on a file that opens
OpenFile ==
    /\ phase = "created"
    /\ \E file \in Files : scanner' = create_tokenizer(file)
    /\ phase' = "scan"
    /\ last' = Step("open", Blank, NoEnv, NoNode)
    /\ UNCHANGED <<asm, head, instr_ref, nlines, assemble_only, object_written, history,
                   symtab, symlog, probe>>

\* one call of get_next_token; the callers make no call after TOK_NULL
GetNextToken ==
    /\ phase = "scan"
    /\ scanner.token # "TOK_NULL"
    /\ scanner' = get_next_token(scanner)
    /\ last' = Step("token", Blank, NoEnv, NoNode)
    /\ UNCHANGED <<asm, phase, head, instr_ref, nlines, assemble_only, object_written,
                   history, symtab, symlog, probe>>

NextTerminate ==
    \/ Execute
    \/ ParseLine(Lines)
    \/ PopTokenizer
    \/ VisitUndefined
    \/ ReplayRecord
    \/ NextSymbol
    \/ Return
    \/ Main
    \/ Crash
    \/ OpenFile
    \/ GetNextToken

\* the guards of the three steps that run an encoder or the state machine
\* of the tokenizer: each of them can be taken whenever its guard holds
CanParseLine == phase = "parse" /\ asm.lookahead \in {"TOK_LINE", "TOK_EOL"}

CanReplayRecord ==
    /\ phase = "replay"
    /\ head <= Len(asm.decl_symlist)
    /\ asm.symbol_table[asm.decl_symlist[head]].status # SYMBOL_UNDEFINED
    /\ instr_ref <= Len(asm.symbol_table[asm.decl_symlist[head]].instr_list)

CanGetNextToken == phase = "scan" /\ scanner.token # "TOK_NULL"

\* the process is scheduled until it ends: a step of the program that can
\* be taken is taken.  For the three steps above WF_vars(A) is written out
\* as []<>~ENABLED <<A>>_vars \/ []<><<A>>_vars, with the guard of A for
\* ENABLED <<A>>_vars.  Whether the run is followed line by line or the
\* tokenizer character by character is a choice of the study, and nothing
\* forces the process to be killed after an undefined operation
Scheduled ==
    /\ WF_vars(Execute)
    /\ WF_vars(PopTokenizer)
    /\ WF_vars(VisitUndefined)
    /\ WF_vars(NextSymbol)
    /\ WF_vars(Return)
    /\ WF_vars(Main)
    /\ ([]<>~CanParseLine \/ []<><<ParseLine(Lines)>>_vars)
    /\ ([]<>~CanReplayRecord \/ []<><<ReplayRecord>>_vars)
    /\ ([]<>~CanGetNextToken \/ []<><<GetNextToken>>_vars)

SpecTerminate == Init /\ [][NextTerminate]_vars /\ Scheduled

(***************************************************************************)
(* Properties                                                              *)
(***************************************************************************)
Assembling == phase \in {"parse", "replay"}

Ended == phase \in {"done", "exit"}

Le32(x, y) == ~Gt32(x, y)

\* the word whose bytes are b, the inverse of WordBytes
WordOf(b) == <<b[3] + 256 * b[4], b[1] + 256 * b[2]>>

OpcodeField(w) == w[1] \div 1024

Range(f) == {f[i] : i \in DOMAIN f}

\* the statement the last step encoded: a source line or a replayed record
Encoded ==
    IF last.kind = "replay"
    THEN [mnemonic |-> last.node.mnemonic, operand_list |-> last.node.operand_list]
    ELSE [mnemonic |-> last.st.mnemonic, operand_list |-> last.st.operand_list]

Resolved(k) ==
    k \in DOMAIN asm.symbol_table /\ asm.symbol_table[k].status # SYMBOL_UNDEFINED

\* the bytes of write i of the last step are in the image (the copy was in bounds)
InImage(i) ==
    LET w == asm.writes[i]
        at == ToNat(Sub32(w.addr, SEGMENT_OFFSET_BASE[w.seg]))
    IN  \A n \in 1 .. Len(w.bytes) :
            /\ (at + n - 1) \in DOMAIN asm.segment_memory[w.seg]
            /\ asm.segment_memory[w.seg][at + n - 1] = w.bytes[n]

\* C1: during the parsing pass and the replay alike, every segment's cursor
\* is at or above its base and its high-water mark is at most the distance
\* of the cursor from the base.
C1_CursorBounds ==
    Assembling =>
        \A s \in Segments :
            /\ Le32(SEGMENT_OFFSET_BASE[s], asm.segment_offset[s])
            /\ Le32(asm.segment_memory_offset[s],
                    Sub32(asm.segment_offset[s], SEGMENT_OFFSET_BASE[s]))

\* the address the bytes of a deferred record belong at: the cursor it was
\* parsed at, rounded up to a word boundary for .word
Slot(node) == IF node.mnemonic = ".word" THEN RoundUp(node.offset, 4) ELSE node.offset

\* the writes a replayed .word issues: one per operand whose label is resolved
WordWrites(node) ==
    {[seg |-> node.segment,
      addr |-> Add32(Slot(node), <<0, 4 * (j - 1)>>),
      bytes |-> WordBytes(asm.symbol_table[node.operand_list[j].identifier].offset)] :
        j \in {n \in 1 .. Len(node.operand_list) :
                 Resolved(node.operand_list[n].identifier)}}

\* the field of the last word of a replayed instruction that carries the label
UsesFinalOffset(node, w, addr) ==
    LET target == asm.symbol_table[
                      node.operand_list[Len(node.operand_list)].identifier].offset
    IN  IF node.mnemonic \in {"j", "jal"}
        THEN <<w[1] % 1024, w[2]>> = <<Shr32(target, 2)[1] % 1024, Shr32(target, 2)[2]>>
        ELSE w[2] = Shr32(Sub32(target, Add32(addr, <<0, 4>>)), 2)[2]

\* C2 (as amended): a record pending on a label that ends up defined is
\* replayed exactly once after the last source line; its writes are issued in
\* the segment it was parsed in, word after word from the cursor it was
\* parsed at -- rounded up to a multiple of 4 for a .word directive -- and
\* carry the final offset of each resolved label; the image holds them
\* whenever the copy is in bounds.
C2_ReplayAtReservedSlot ==
    /\ last.kind = "replay" =>
          LET node == last.node
              W == asm.writes
          IN  /\ W # <<>>
              /\ IF node.mnemonic = ".word"
                 THEN /\ Range(W) = WordWrites(node)
                      /\ Len(W) = Cardinality(WordWrites(node))
                 ELSE /\ \A i \in 1 .. Len(W) :
                            /\ W[i].seg = node.segment
                            /\ W[i].addr = Add32(node.offset, <<0, 4 * (i - 1)>>)
                      /\ UsesFinalOffset(node, WordOf(W[Len(W)].bytes), W[Len(W)].addr)
              /\ ~asm.ub => \A i \in 1 .. Len(W) : InImage(i)
    /\ \A i, j \in 1 .. Len(history.replayed) :
          history.replayed[i] = history.replayed[j] => i = j
    /\ Ended =>
          \A k \in DOMAIN asm.symbol_table :
             Resolved(k) =>
                \A n \in 1 .. Len(asm.symbol_table[k].instr_list) :
                   asm.symbol_table[k].instr_list[n].id \in Range(history.replayed)

\* C2 as stated: the bytes of a replayed record land at the cursor that was
\* snapshotted when the statement was parsed.
C2_ReplayAtSnapshot ==
    last.kind = "replay" =>
        \A i \in 1 .. Len(asm.writes) :
            /\ asm.writes[i].seg = last.node.segment
            /\ asm.writes[i].addr = Add32(last.node.offset, <<0, 4 * (i - 1)>>)

\* a .word parsed at a cursor that is not a multiple of 4 has been replayed
C2_Witness ==
    /\ last.kind = "replay"
    /\ last.node.mnemonic = ".word"
    /\ last.node.offset[2] % 4 # 0
    /\ asm.writes # <<>>
    /\ ~asm.ub

\* ((target - (A + 4)) >> 2) in 16 bits, on the integers
ExpectedImm(target, A) == ((ToNat(target) - ToNat(A) - 4) \div 4) % 65536

BranchOpcodes == {1, 4, 5, 6, 7}

\* C3: whenever a branch statement is encoded, while parsing or at replay,
\* the last word written is its branch word and the 16-bit immediate of that
\* word is ((target - (A + 4)) >> 2) truncated to 16 bits, A being the
\* address the branch word is written at; the words before it are not
\* branches.
C3_BranchImmediate ==
    (last.kind \in {"line", "replay"} /\ Encoded.mnemonic \in BranchMnemonics
        /\ asm.writes # <<>>) =>
        LET W == asm.writes
            ops == Encoded.operand_list
            target == asm.symbol_table[ops[Len(ops)].identifier].offset
        IN  /\ OpcodeField(WordOf(W[Len(W)].bytes)) \in BranchOpcodes
            /\ WordOf(W[Len(W)].bytes)[2] = ExpectedImm(target, W[Len(W)].addr)
            /\ \A i \in 1 .. (Len(W) - 1) :
                  OpcodeField(WordOf(W[i].bytes)) \notin BranchOpcodes

\* a three-word pseudo-branch has been replayed with a forward distance of
\* one word beyond its own end
C3_Witness ==
    /\ last.kind = "replay"
    /\ last.node.mnemonic \in {"ble", "bgt", "bleu", "bgtu"}
    /\ Len(asm.writes) = 3
    /\ WordOf(asm.writes[3].bytes)[2] = 1

\* the bytes the last step wrote
Emitted == 4 * Len(asm.writes)

\* the immediate is a 16-bit quantity, signed or unsigned
Short(v) == v[1] = 0 \/ (v[1] = 65535 /\ v[2] >= 32768)

\* C4 (as amended): a pseudo-instruction that is encoded, while parsing or at
\* replay, emits the byte size of its opcode-table descriptor, with two
\* exceptions: li with a 16-bit immediate emits 4 bytes (descriptor: 8), and
\* ble, bgt, bleu, bgtu with an immediate second operand emit 12 bytes
\* (descriptor: 8).
C4_EmittedSize ==
    (last.kind \in {"line", "replay"} /\ Encoded.mnemonic \in PsuedoMnemonics
        /\ asm.writes # <<>>) =>
        LET m == Encoded.mnemonic
            ops == Encoded.operand_list
        IN  Emitted =
              IF m = "li" /\ Short(ops[2].integer) THEN 4
              ELSE IF m \in {"ble", "bgt", "bleu", "bgtu"}
                      /\ ops[2].operand = OPERAND_IMMEDIATE THEN 12
              ELSE opcode_table(m).size

\* C4 as stated: the bytes emitted equal the descriptor's size in every case.
C4_EmittedIsDeclared ==
    (last.kind \in {"line", "replay"} /\ Encoded.mnemonic \in PsuedoMnemonics
        /\ asm.writes # <<>>) =>
        Emitted = opcode_table(Encoded.mnemonic).size

\* ble with an immediate has been replayed and wrote three words
C4_Witness ==
    /\ last.kind = "replay"
    /\ last.node.mnemonic = "ble"
    /\ last.node.operand_list[2].operand = OPERAND_IMMEDIATE
    /\ Emitted = 12

\* C5 (as amended): when assembly ends with status ok, every symbol of the
\* table is defined, and its segment and offset are the active segment and
\* that segment's cursor where the label was defined (after the automatic
\* alignment when the label stands in front of .word or .half).
C5_SymbolsWhereDefined ==
    (Ended /\ asm.status = ASSEMBLER_STATUS_OK) =>
        \A k \in DOMAIN asm.symbol_table :
            /\ asm.symbol_table[k].status = SYMBOL_DEFINED
            /\ k \in DOMAIN history.defined_at
            /\ asm.symbol_table[k].segment = history.defined_at[k].segment
            /\ asm.symbol_table[k].offset = history.defined_at[k].offset

\* C5 as stated: when assembly ends with status ok, every symbol is defined
\* and base <= offset < base + high-water of its segment.
C5_SymbolsInsideImage ==
    (Ended /\ asm.status = ASSEMBLER_STATUS_OK) =>
        \A k \in DOMAIN asm.symbol_table :
            LET sym == asm.symbol_table[k]
            IN  /\ sym.status = SYMBOL_DEFINED
                /\ Le32(SEGMENT_OFFSET_BASE[sym.segment], sym.offset)
                /\ Gt32(Add32(SEGMENT_OFFSET_BASE[sym.segment],
                              asm.segment_memory_offset[sym.segment]), sym.offset)

\* an ok run ended with a label of the data segment that lies beyond the
\* high-water mark
C5_Witness ==
    /\ phase = "exit"
    /\ asm.status = ASSEMBLER_STATUS_OK
    /\ \E k \in DOMAIN asm.symbol_table :
          /\ asm.symbol_table[k].segment = SEGMENT_DATA
          /\ Gt32(asm.symbol_table[k].offset,
                  Add32(SEGMENT_OFFSET_BASE[SEGMENT_DATA],
                        asm.segment_memory_offset[SEGMENT_DATA]))

\* the records pending on the symbol that program_cfg has just visited
Visited == asm.symbol_table[asm.decl_symlist[head - 1]].instr_list

\* C6: when a label that is used as an operand is never defined, a run that
\* ends has status fail, and the step that visits the undefined symbol
\* writes nothing and discards records none of whose bytes were written (no
\* record it releases was replayed before).
C6_UndefinedLabelDiscarded ==
    /\ (Ended /\ history.used \ DOMAIN history.defined_at # {}) =>
          asm.status = ASSEMBLER_STATUS_FAIL
    /\ last.kind = "undefined" =>
          /\ asm.writes = <<>>
          /\ \A n \in 1 .. Len(Visited) : Visited[n].id \notin Range(history.replayed)

\* C7: a status of fail stays fail until the run ends, and the object file
\* is written only when the final status is ok.
C7_FailIsFinal ==
    /\ [][asm.status = ASSEMBLER_STATUS_FAIL => asm'.status = ASSEMBLER_STATUS_FAIL]_vars
    /\ [](object_written => asm.status = ASSEMBLER_STATUS_OK)

\* the run failed on an early line, read more lines, and main wrote no object
\* file although -a was not given
C7_Witness ==
    /\ phase = "exit"
    /\ asm.status = ASSEMBLER_STATUS_FAIL
    /\ nlines = MaxLines
    /\ ~assemble_only
    /\ ~object_written
    /\ "b" \in DOMAIN asm.symbol_table
    /\ asm.symbol_table["b"].status = SYMBOL_DEFINED

\* C8: a step that reads a line `k: ...' while the active segment is s and
\* its cursor is c (rounded up when the label stands in front of .word or
\* .half) leaves k defined at (s, c) when k was absent or undefined, and
\* otherwise leaves k doubly-defined with its segment and offset unchanged
\* and the status fail; no step removes a symbol, turns a doubly-defined one
\* into anything else, or turns a defined one back into undefined.
C8_LabelDefinition ==
    [][/\ \A k \in DOMAIN asm.symbol_table :
             phase # "created" =>
                /\ k \in DOMAIN asm'.symbol_table
                /\ asm.symbol_table[k].status = SYMBOL_DOUBLY =>
                      asm'.symbol_table[k].status = SYMBOL_DOUBLY
                /\ asm.symbol_table[k].status = SYMBOL_DEFINED =>
                      asm'.symbol_table[k].status # SYMBOL_UNDEFINED
       /\ (nlines' = nlines + 1 /\ last'.st.colon) =>
             LET k == last'.st.label
                 s == asm.segment
                 c == RoundUp(asm.segment_offset[s],
                              CASE last'.st.mnemonic = ".word" -> 4
                                [] last'.st.mnemonic = ".half" -> 2
                                [] OTHER -> 1)
             IN  /\ k \in DOMAIN asm'.symbol_table
                 /\ IF k \in DOMAIN asm.symbol_table
                       /\ asm.symbol_table[k].status # SYMBOL_UNDEFINED
                    THEN /\ asm'.symbol_table[k].status = SYMBOL_DOUBLY
                         /\ asm'.symbol_table[k].segment = asm.symbol_table[k].segment
                         /\ asm'.symbol_table[k].offset = asm.symbol_table[k].offset
                         /\ asm'.status = ASSEMBLER_STATUS_FAIL
                    ELSE /\ asm'.symbol_table[k].status = SYMBOL_DEFINED
                         /\ asm'.symbol_table[k].segment = s
                         /\ asm'.symbol_table[k].offset = c
      ]_vars

\* the last line defined again a label whose recorded place is not the
\* present cursor
C8_Witness ==
    /\ last.kind = "line"
    /\ last.st.colon
    /\ last.st.label \in DOMAIN asm.symbol_table
    /\ asm.symbol_table[last.st.label].status = SYMBOL_DOUBLY
    /\ \/ asm.symbol_table[last.st.label].segment # asm.segment
       \/ asm.symbol_table[last.st.label].offset # asm.segment_offset[asm.segment]

\* C9: after a line `.align n' with n in [1,31] is processed, the cursor of
\* the active segment is a multiple of 2^n.
C9_AlignedAfterAlign ==
    (last.kind = "line" /\ last.st.mnemonic = ".align" /\ last.st.label = ""
        /\ ~Gt32Nat(last.st.operand_list[1].integer, 31)
        /\ last.st.operand_list[1].integer # <<0, 0>>) =>
        LowBits(asm.segment_offset[asm.segment],
                ToNat(last.st.operand_list[1].integer)) = <<0, 0>>

\* C10: processing an .include whose file opens reports no error, and when
\* the file starts with a statement the first token of that statement is
\* what the grammar parses next.
C10_IncludeDeliversFile ==
    [][(nlines' = nlines + 1 /\ last'.st = IncludeLine /\ last'.env.opens) =>
          /\ asm'.status = asm.status
          /\ last'.env.first = "TOK_MNEMONIC" => asm'.lookahead = "TOK_MNEMONIC"
      ]_vars

\* the cursor of segment s has left the segment: it is above the limit, or
\* it has wrapped around and is below the base
Outside(s) ==
    \/ Gt32(asm.segment_offset[s], SEGMENT_OFFSET_LIMIT[s])
    \/ Gt32(SEGMENT_OFFSET_BASE[s], asm.segment_offset[s])

\* C11: once a statement has moved a segment's cursor beyond the segment's
\* limit (directly, or by wrapping around 32 bits), the overflow has been
\* recorded and the status is fail.
C11_OverflowReported ==
    phase # "created" =>
        \A s \in Segments : Outside(s) => asm.status = ASSEMBLER_STATUS_FAIL

\* the step reads a source line that carries an instruction mnemonic
ReadsInstruction ==
    /\ nlines' = nlines + 1
    /\ last'.st.mnemonic # ""
    /\ last'.st.mnemonic \notin Directives

\* C12: a line with an instruction mnemonic read while the active segment
\* is the user-data or the kernel-data segment sets the status to fail,
\* writes no byte to any image and moves no cursor.
C12_NoInstructionInData ==
    [][(ReadsInstruction /\ asm.segment \in {SEGMENT_DATA, SEGMENT_KDATA}) =>
          /\ asm'.status = ASSEMBLER_STATUS_FAIL
          /\ asm'.writes = <<>>
          /\ asm'.segment_memory = asm.segment_memory
          /\ asm'.segment_memory_offset = asm.segment_memory_offset
          /\ asm'.segment_offset = asm.segment_offset
      ]_vars

\* the step reads a source line and reports an error: the status turns to
\* fail, or tokens are skipped
ReportsError ==
    /\ nlines' = nlines + 1
    /\ \/ asm.status = ASSEMBLER_STATUS_OK /\ asm'.status = ASSEMBLER_STATUS_FAIL
       \/ asm'.drained # 0

\* C13: a step that reports an error on a source line leaves the status
\* fail, skips tokens of that line only (of the tokenizer the line was read
\* from) and leaves the parser at the end of that line or at the first token
\* of the next one; lines read after an error still have their labels
\* defined and their own errors reported.
C13_RecoveryAtEndOfLine ==
    [][/\ ReportsError =>
             /\ asm'.status = ASSEMBLER_STATUS_FAIL
             /\ asm'.drained \in {0, asm.tokenizer_list}
             /\ asm'.lookahead \in {"TOK_EOL", last'.env.nxt}
       /\ (nlines' = nlines + 1 /\ asm.status = ASSEMBLER_STATUS_FAIL) =>
             /\ last'.st.colon =>
                   /\ last'.st.label \in DOMAIN asm'.symbol_table
                   /\ asm'.symbol_table[last'.st.label].status # SYMBOL_UNDEFINED
             /\ (last'.st.label # "" /\ ~last'.st.colon) =>
                   asm'.drained = asm.tokenizer_list
      ]_vars

\* C14: a step that reads an .include line whose file cannot be opened
\* leaves the status fail and the tokenizer stack as it was, skips no token,
\* writes nothing, and leaves the parser at the first token of the parent's
\* next line (or at the parent's end of input).
C14_IncludeFailure ==
    [][(nlines' = nlines + 1 /\ last'.st = IncludeLine /\ ~last'.env.opens) =>
          /\ asm'.status = ASSEMBLER_STATUS_FAIL
          /\ asm'.tokenizer_list = asm.tokenizer_list
          /\ asm'.drained = 0
          /\ asm'.writes = <<>>
          /\ asm'.segment_offset = asm.segment_offset
          /\ asm'.lookahead = last'.env.nxt
      ]_vars

\* after a line that defined a label, an .include failed to open at the top
\* level, and a line of the parent follows it
C14_Witness ==
    /\ last.kind = "line"
    /\ last.st = IncludeLine
    /\ ~last.env.opens
    /\ asm.status = ASSEMBLER_STATUS_FAIL
    /\ asm.tokenizer_list = 1
    /\ asm.lookahead = "TOK_LINE"
    /\ nlines = 2
    /\ "a" \in DOMAIN asm.symbol_table
    /\ asm.symbol_table["a"].status = SYMBOL_DEFINED

\* no record is on the deferred list of any symbol
NothingDeferred ==
    \A k \in DOMAIN asm.symbol_table : asm.symbol_table[k].instr_list = <<>>

\* C15: as long as every label operand read so far names a label that the
\* source defined earlier, no record is on a deferred list, and no step of
\* the end-of-input pass writes a byte or changes an image, a high-water
\* mark or a cursor.
C15_NoForwardNoReplay ==
    /\ [](history.forward = {} => NothingDeferred)
    /\ [][(history.forward = {} /\ phase = "replay") =>
             /\ asm'.writes = <<>>
             /\ asm'.segment_memory = asm.segment_memory
             /\ asm'.segment_memory_offset = asm.segment_memory_offset
             /\ asm'.segment_offset = asm.segment_offset
         ]_vars

\* C16: every key that was inserted looks up to the entry that its insert
\* returned, right after the insert and after every later insert, rehash
\* included; the result of each lookup made is that entry, or NULL for a key
\* that was not inserted; and the table counts its entries.
C16_LookupReturnsInserted ==
    /\ \A k \in DOMAIN symlog.returned :
          get_symbol_table_st(symtab, k) = symlog.returned[k]
    /\ symlog.key # <<>> =>
          symlog.entry = IF symlog.key \in DOMAIN symlog.returned
                         THEN symlog.returned[symlog.key] ELSE NULL
    /\ symtab.length = Cardinality(DOMAIN symlog.returned)

\* after the rehash, a key that was inserted before it and is second in the
\* chain of its bucket has been looked up and found
C16_Witness ==
    /\ symtab.bucket_size = 2 * INITIAL_BUCKETS
    /\ symlog.key \in DOMAIN symlog.returned
    /\ symlog.entry = symlog.returned[symlog.key]
    /\ 10 * symlog.entry.id < 7 * INITIAL_BUCKETS
    /\ LET chain == symtab.buckets[djb2hash(symlog.key) % symtab.bucket_size]
       IN  Len(chain) >= 2 /\ chain[2] = symlog.entry

\* the first entry whose key is `key', -1 if there is none
LinearScan(key) ==
    LET Found == {i \in 0 .. (reserved_table_size - 1) : reserved_table[i + 1].id = key}
    IN  IF Found = {} THEN -1 ELSE CHOOSE i \in Found : \A j \in Found : i <= j

\* C17: for every key stored in the reserved-word table the binary search
\* returns the entry that a linear scan of the table returns for that key,
\* and so does every search that was made.
C17_BinarySearchIsLinearScan ==
    /\ \A i \in 1 .. reserved_table_size :
          get_reserved_table(reserved_table[i].id) = LinearScan(reserved_table[i].id)
    /\ probe.key # <<>> => probe.index = LinearScan(probe.key)

\* a key of the table that the search reaches only after moving both bounds
\* has been searched and found at its entry
C17_Witness ==
    /\ probe.key = <<"s", "l", "t", "i", "u">>
    /\ probe.index >= 0
    /\ reserved_table[probe.index + 1].id = probe.key
    /\ reserved_table[probe.index + 1].token = "TOK_MNEMONIC"

\* the bytes that the last step wrote to the images
RECURSIVE Written(_)
Written(i) ==
    IF i > Len(asm.writes) THEN 0 ELSE Len(asm.writes[i].bytes) + Written(i + 1)

\* C18: when a pending record has been replayed, the bytes the replay wrote
\* are as many as the cursor advanced when the statement was deferred.
C18_ReplayWritesReserved ==
    last.kind = "replay" => Written(1) = history.reserved[last.node.id]

\* every label that the record names is defined
AllDefined(node) ==
    \A k \in LabelOperands(node) : asm.symbol_table[k].status # SYMBOL_UNDEFINED

\* the bytes that .word skips from the snapshot cursor to a multiple of four
Padding(node) ==
    IF node.mnemonic = ".word"
    THEN ToNat(Sub32(RoundUp(node.offset, 4), node.offset)) ELSE 0

\* C18 (amended): when a pending record has been replayed and every label
\* it names is defined, the bytes the replay wrote, plus the bytes .word
\* skips to reach a multiple of four, are as many as the cursor advanced
\* when the statement was deferred.
C18_ReplayWritesReservedDefined ==
    (last.kind = "replay" /\ AllDefined(last.node)) =>
        Written(1) + Padding(last.node) = history.reserved[last.node.id]

\* a .word with a constant and a label, at a cursor that is not a multiple
\* of four, has been replayed
C18_Witness ==
    /\ last.kind = "replay"
    /\ last.node.mnemonic = ".word"
    /\ AllDefined(last.node)
    /\ Padding(last.node) = 3
    /\ Written(1) = 8
    /\ history.reserved[last.node.id] = 11

\* a pseudo-branch with an immediate has been replayed: twelve bytes
C18_WitnessBranch ==
    /\ last.kind = "replay"
    /\ last.node.mnemonic = "ble"
    /\ Written(1) = 12
    /\ history.reserved[last.node.id] = 12

\* the symbols on whose pending list the record `id' is
Owners(id) ==
    {k \in DOMAIN asm.symbol_table :
        \E i \in 1 .. Len(asm.symbol_table[k].instr_list) :
            asm.symbol_table[k].instr_list[i].id = id}

\* the step replays a record, or discards the records of an undefined
\* symbol, and one of them was released before
TouchesReleased ==
    \/ /\ last'.kind = "replay"
       /\ last'.node.id \in asm.freed
    \/ /\ last'.kind = "undefined"
       /\ \E i \in 1 .. Len(asm.symbol_table[asm.decl_symlist[head]].instr_list) :
             asm.symbol_table[asm.decl_symlist[head]].instr_list[i].id \in asm.freed

\* C19: at every point each pending record is on the list of at most one
\* symbol; no step replays or releases a record that was released before;
\* and when program_cfg has returned every record has been released.
C19_ExclusiveOwnership ==
    /\ [](\A id \in 1 .. asm.nalloc : Cardinality(Owners(id)) <= 1)
    /\ [][~TouchesReleased]_vars
    /\ [](phase = "done" => asm.freed = 1 .. asm.nalloc)

\* C20: the bytes that a step writes to a segment image at image offset o
\* with length len end within the capacity of the image buffer, o + len <=
\* capacity, and the high-water mark of each image is within its capacity.
C20_WritesWithinCapacity ==
    /\ \A i \in 1 .. Len(asm.writes) :
          ~Gt32Nat(Add32(Sub32(asm.writes[i].addr, SEGMENT_OFFSET_BASE[asm.writes[i].seg]),
                         FromNat(Len(asm.writes[i].bytes))),
                   asm.segment_memory_size[asm.writes[i].seg])
    /\ \A s \in Segments :
          ~Gt32Nat(asm.segment_memory_offset[s], asm.segment_memory_size[s])

\* the symbols that program_cfg has visited, the one it is at included when
\* one of its records was replayed
VisitedSymbols ==
    {asm.decl_symlist[i] :
        i \in 1 .. (IF last.kind = "replay" THEN head ELSE head - 1)}

\* C21: a record is replayed after every record that was deferred on the
\* same symbol before it, and a symbol is visited after every symbol that
\* was touched before it.
C21_ReplayInDeferralOrder ==
    /\ last.kind = "replay" =>
          \A i \in 1 .. Len(asm.symbol_table[asm.decl_symlist[head]].instr_list) :
             LET p == asm.symbol_table[asm.decl_symlist[head]].instr_list[i]
             IN  p.id < last.node.id => p.id \in Range(history.replayed)
    /\ phase = "replay" =>
          \A i \in 1 .. Len(history.touched) :
             history.touched[i] \in VisitedSymbols =>
                \A j \in 1 .. (i - 1) : history.touched[j] \in VisitedSymbols

\* C21 (amended): a record is replayed after every record that was deferred
\* on the same symbol after it, and a symbol is visited after every symbol
\* that was touched after it.
C21_ReplayInReverseOrder ==
    /\ last.kind = "replay" =>
          \A i \in 1 .. Len(asm.symbol_table[asm.decl_symlist[head]].instr_list) :
             LET p == asm.symbol_table[asm.decl_symlist[head]].instr_list[i]
             IN  p.id > last.node.id => p.id \in Range(history.replayed)
    /\ phase = "replay" =>
          \A i \in 1 .. Len(history.touched) :
             history.touched[i] \in VisitedSymbols =>
                \A j \in (i + 1) .. Len(history.touched) :
                   history.touched[j] \in VisitedSymbols

\* the first of two records deferred on the first of two symbols touched
\* has been replayed, after the second record and after the visit of the
\* second symbol
C21_Witness ==
    /\ last.kind = "replay"
    /\ last.node.id = 1
    /\ history.replayed = <<2, 1>>
    /\ Len(history.touched) = 2
    /\ asm.decl_symlist[head] = history.touched[1]
    /\ history.touched[2] \in VisitedSymbols

\* the step reads `.space n' with n >= 0 as a signed 32-bit value
ReadsSpace ==
    /\ last'.kind = "line"
    /\ last'.st.mnemonic = ".space"
    /\ last'.st.operand_list[1].integer[1] < 32768

\* C22: after `.space n' with n >= 0 the cursor of the active segment has
\* advanced by n, no image byte has changed, and the capacity of the image
\* buffer of the segment covers the new cursor: cursor - base <= capacity.
C22_SpaceGrowsBuffer ==
    [][ReadsSpace =>
          /\ asm'.segment_offset[asm.segment]
                = Add32(asm.segment_offset[asm.segment], last'.st.operand_list[1].integer)
          /\ asm'.segment_memory = asm.segment_memory
          /\ ~Gt32Nat(Sub32(asm'.segment_offset[asm.segment],
                            SEGMENT_OFFSET_BASE[asm.segment]),
                      asm'.segment_memory_size[asm.segment])]_vars

\* how many times the record `id' is on the pending lists of a
Occurrences(a, id) ==
    Cardinality({<<k, i>> \in (DOMAIN a.symbol_table) \X (1 .. MaxLines + 2) :
                    /\ i <= Len(a.symbol_table[k].instr_list)
                    /\ a.symbol_table[k].instr_list[i].id = id})

\* the first label among the operands from position i that is undefined in
\* a, "" when there is none
RECURSIVE FirstUndefined(_, _, _)
FirstUndefined(a, ops, i) ==
    IF i > Len(ops) THEN ""
    ELSE IF /\ ops[i].operand = OPERAND_LABEL
            /\ a.symbol_table[ops[i].identifier].status = SYMBOL_UNDEFINED
    THEN ops[i].identifier
    ELSE FirstUndefined(a, ops, i + 1)

\* what a run of .word on the record `node' from cursor `start' must leave
\* in a1, a0 being the assembler before it: the cursor 4 bytes per operand
\* after `start', and the record once more on the pending lists, in front of
\* the list of the first undefined label, when there is such a label
WordRun(a0, a1, node, start) ==
    LET k == FirstUndefined(a1, node.operand_list, 1)
    IN  /\ a1.segment_offset[node.segment]
              = Add32(start, <<0, 4 * Len(node.operand_list)>>)
        /\ IF k = ""
           THEN Occurrences(a1, node.id) = Occurrences(a0, node.id)
           ELSE /\ Occurrences(a1, node.id) = Occurrences(a0, node.id) + 1
                /\ a1.symbol_table[k].instr_list[1].id = node.id

\* the step runs a .word directive that was read from a line
ParsesWord ==
    /\ last'.kind = "line"
    /\ last'.st.mnemonic = ".word"
    /\ asm'.nalloc = asm.nalloc + 1

\* the record of the .word directive of a line: the cursor of the snapshot
\* is the cursor after the label of the line, which is aligned
LineNode(aligned) ==
    [id |-> asm'.nalloc, mnemonic |-> ".word", operand_list |-> last'.st.operand_list,
     offset |-> IF last'.st.colon \/ aligned
                THEN RoundUp(asm.segment_offset[asm.segment], 4)
                ELSE asm.segment_offset[asm.segment],
     segment |-> asm.segment]

\* the step replays a .word directive
ReplaysWord ==
    /\ last'.kind = "replay"
    /\ last'.node.mnemonic = ".word"

\* C23: a .word directive advances the cursor by 4 bytes per operand,
\* whether its labels are defined or not, and when it names undefined labels
\* its record is put on one pending list only, that of the first undefined
\* label, both when it is read and when it is replayed.
C23_WordAdvance ==
    [][/\ ParsesWord => WordRun(asm, asm', LineNode(FALSE), LineNode(FALSE).offset)
       /\ ReplaysWord => WordRun(asm, asm', last'.node, last'.node.offset)]_vars

\* C23 (amended): the same, with the 4 bytes per operand counted from the
\* cursor rounded up to a multiple of four.
C23_WordAdvanceAligned ==
    [][/\ ParsesWord => WordRun(asm, asm', LineNode(TRUE), LineNode(TRUE).offset)
       /\ ReplaysWord =>
             WordRun(asm, asm', last'.node, RoundUp(last'.node.offset, 4))]_vars

\* a .word of two labels, at a cursor that is not a multiple of four, has
\* been replayed with its second label undefined and is in front of the
\* list of that label
C23_Witness ==
    /\ last.kind = "replay"
    /\ last.node.mnemonic = ".word"
    /\ Len(last.node.operand_list) = 2
    /\ last.node.offset[2] % 4 = 1
    /\ FirstUndefined(asm, last.node.operand_list, 1) = "b"
    /\ asm.symbol_table["b"].instr_list[1].id = last.node.id
    /\ Occurrences(asm, last.node.id) = 2
    /\ asm.segment_offset[last.node.segment] = Add32(last.node.offset, <<0, 11>>)

\* the step reads a line `label: .word ...' or `label: .half ...' and
\* defines the label
DefinesBeforeData ==
    /\ last'.kind = "line"
    /\ last'.st.colon
    /\ last'.st.mnemonic \in {".word", ".half"}
    /\ last'.st.label \in DOMAIN asm.symbol_table =>
          asm.symbol_table[last'.st.label].status = SYMBOL_UNDEFINED

\* C24: the offset recorded for a label that stands in front of .word
\* (.half) is a multiple of 4 (2), whatever the cursor was, and is the
\* address at which the first operand of the directive is written.
C24_LabelAtFirstOperand ==
    [][DefinesBeforeData =>
          LET sym_entry == asm'.symbol_table[last'.st.label]
              m == IF last'.st.mnemonic = ".word" THEN 4 ELSE 2
          IN  /\ sym_entry.status = SYMBOL_DEFINED
              /\ sym_entry.segment = asm.segment
              /\ sym_entry.offset[2] % m = 0
              /\ sym_entry.offset = RoundUp(asm.segment_offset[asm.segment], m)
              /\ asm'.writes # <<>> =>
                    /\ asm'.writes[1].addr = sym_entry.offset
                    /\ asm'.writes[1].seg = sym_entry.segment]_vars

\* a label in front of .half, read in the data segment at an odd cursor, is
\* at the even address where the half word was written
C24_Witness ==
    /\ last.kind = "line"
    /\ last.st.colon
    /\ last.st.mnemonic = ".half"
    /\ asm.symbol_table[last.st.label].status = SYMBOL_DEFINED
    /\ asm.symbol_table[last.st.label].offset = Add32(SEGMENT_OFFSET_BASE[SEGMENT_DATA], <<0, 2>>)
    /\ Len(asm.writes) = 1
    /\ asm.writes[1].addr = asm.symbol_table[last.st.label].offset
    /\ Len(asm.writes[1].bytes) = 2
    /\ history.mnemonics = <<".data", ".space", ".half">>

\* the step reads a statement
ReadsStatement ==
    /\ last'.kind = "line"
    /\ last'.st.mnemonic # ""

\* the segment that a directive selects
SegmentOf(m) ==
    CASE m = ".text" -> SEGMENT_TEXT
      [] m = ".data" -> SEGMENT_DATA
      [] m = ".ktext" -> SEGMENT_KTEXT
      [] m = ".kdata" -> SEGMENT_KDATA

\* C25: .text, .data, .ktext and .kdata select the segment and change
\* nothing else of the cursors, the images, the symbols and the status, and
\* write no byte; and a statement read while segment s is active leaves the
\* cursor, the high-water mark and the image of every other segment as they
\* were.
C25_SegmentFrame ==
    [][ReadsStatement =>
          /\ last'.st.mnemonic \in {".text", ".data", ".ktext", ".kdata"} =>
                /\ asm'.segment = SegmentOf(last'.st.mnemonic)
                /\ asm'.segment_offset = asm.segment_offset
                /\ asm'.segment_memory = asm.segment_memory
                /\ asm'.segment_memory_offset = asm.segment_memory_offset
                /\ asm'.segment_memory_size = asm.segment_memory_size
                /\ asm'.symbol_table = asm.symbol_table
                /\ asm'.decl_symlist = asm.decl_symlist
                /\ asm'.status = asm.status
                /\ asm'.writes = <<>>
          /\ \A s \in Segments \ {asm.segment} :
                /\ asm'.segment_offset[s] = asm.segment_offset[s]
                /\ asm'.segment_memory_offset[s] = asm.segment_memory_offset[s]
                /\ asm'.segment_memory[s] = asm.segment_memory[s]
                /\ \A i \in 1 .. Len(asm'.writes) : asm'.writes[i].seg # s]_vars

\* after an instruction in the text segment and a switch to the data
\* segment, a byte has been written there and the text image is as it was
C25_Witness ==
    /\ last.kind = "line"
    /\ last.st.mnemonic = ".byte"
    /\ history.mnemonics = <<"syscall", ".data", ".byte">>
    /\ asm.segment = SEGMENT_DATA
    /\ asm.segment_memory_offset[SEGMENT_TEXT] = <<0, 4>>
    /\ asm.segment_memory_offset[SEGMENT_DATA] = <<0, 1>>
    /\ Len(asm.writes) = 1
    /\ asm.writes[1].seg = SEGMENT_DATA

\* the fields of an instruction word
RsField(w) == (w[1] \div 32) % 32
RtField(w) == w[1] % 32
RdField(w) == w[2] \div 2048
ShamtField(w) == (w[2] \div 64) % 32
FunctField(w) == w[2] % 64

\* the immediate does not fit the 16 bits of the instruction: as a signed
\* value for addi, addiu, slti, sltiu, as an unsigned one for andi, ori, xori
OutOfRange(m, v) ==
    IF m \in {"andi", "ori", "xori"}
    THEN v[1] # 0
    ELSE ~(v[1] = 0 /\ v[2] < 32768) /\ ~(v[1] = 65535 /\ v[2] >= 32768)

\* the register-register form of an instruction that takes an immediate
RegisterForm(m) ==
    CASE m = "addi" -> "add" [] m = "addiu" -> "addu" [] m = "slti" -> "slt"
      [] m = "sltiu" -> "sltu" [] m = "andi" -> "and" [] m = "ori" -> "or"
      [] m = "xori" -> "xor"

\* the three words LUI $1, hi16 ; ORI $1, $1, lo16 ; `rr' rd, rs, $1
ExpandsTo(words, rr, rd, rs, v) ==
    /\ Len(words) = 3
    /\ OpcodeField(words[1]) = 15 /\ RsField(words[1]) = 0 /\ RtField(words[1]) = 1
    /\ words[1][2] = v[1]
    /\ OpcodeField(words[2]) = 13 /\ RsField(words[2]) = 1 /\ RtField(words[2]) = 1
    /\ words[2][2] = v[2]
    /\ OpcodeField(words[3]) = 0 /\ RsField(words[3]) = rs /\ RtField(words[3]) = 1
    /\ RdField(words[3]) = rd /\ ShamtField(words[3]) = 0
    /\ FunctField(words[3]) = FunctOf(rr)

\* the words that the last step wrote
WordsWritten == [i \in 1 .. Len(asm.writes) |-> WordOf(asm.writes[i].bytes)]

\* the last step read an instruction with an immediate outside its range
ExpandedImmediate ==
    /\ last.kind = "line"
    /\ last.st.mnemonic \in ImmMnemonics
    /\ OutOfRange(last.st.mnemonic, last.st.operand_list[3].integer)

\* C26: an instruction with an immediate outside its 16-bit range is written
\* as three words, LUI $1, hi16 ; ORI $1, $1, lo16 ; and the
\* register-register form of the same operation on rs and $1, whose funct
\* field is the opcode of the instruction plus 0x18.
C26_ImmediateExpansion ==
    ExpandedImmediate =>
        /\ ExpandsTo(WordsWritten, RegisterForm(last.st.mnemonic),
                     last.st.operand_list[1].reg, last.st.operand_list[2].reg,
                     last.st.operand_list[3].integer)
        /\ FunctField(WordsWritten[3]) = OpcodeOf(last.st.mnemonic) + 24

\* the 32-bit value of a 16-bit immediate, sign-extended
SignExtend(imm) == IF imm >= 32768 THEN <<65535, imm>> ELSE <<0, imm>>

\* the bitwise or of two 16-bit values, n being the bits left to combine
RECURSIVE Or16(_, _, _)
Or16(x, y, n) ==
    IF n = 0 THEN 0
    ELSE (IF x % 2 = 1 \/ y % 2 = 1 THEN 1 ELSE 0) + 2 * Or16(x \div 2, y \div 2, n - 1)

\* the registers after the processor executes instruction word w on
\* registers regs: LUI, ORI and ADDIU, register 0 always reading as zero
Executed(regs, w) ==
    LET rs == IF RsField(w) = 0 THEN <<0, 0>> ELSE regs[RsField(w)]
        value == CASE OpcodeField(w) = 15 -> <<w[2], 0>>
                   [] OpcodeField(w) = 13 -> <<rs[1], Or16(rs[2], w[2], 16)>>
                   [] OpcodeField(w) = 9 -> Add32(rs, SignExtend(w[2]))
    IN  [regs EXCEPT ![RtField(w)] = value]

\* the registers after the words from position i, in order
RECURSIVE ExecutedAll(_, _, _)
ExecutedAll(regs, words, i) ==
    IF i > Len(words) THEN regs
    ELSE ExecutedAll(Executed(regs, words[i]), words, i + 1)

\* an I-type word with these fields
IsImmediateWord(w, opcode, rs, rt, imm) ==
    /\ OpcodeField(w) = opcode /\ RsField(w) = rs /\ RtField(w) = rt /\ w[2] = imm

\* the words of `li rd, v' : one ORI, one ADDIU, or LUI and ORI
LoadsImmediate(words, rd, v) ==
    /\ IF v[1] = 0 /\ v[2] >= 32768
       THEN Len(words) = 1 /\ IsImmediateWord(words[1], 13, 0, rd, v[2])
       ELSE IF v = SignExtend(v[2])
       THEN Len(words) = 1 /\ IsImmediateWord(words[1], 9, 0, rd, v[2])
       ELSE /\ Len(words) = 2
            /\ IsImmediateWord(words[1], 15, 0, 1, v[1])
            /\ IsImmediateWord(words[2], 13, 1, rd, v[2])
    /\ ExecutedAll([r \in 1 .. 31 |-> <<43981, 52719>>], words, 1)[rd] = v

\* C27: `li rd, v' is written as ORI rd, $0, v when the upper half of v is
\* zero and bit 15 is set, as ADDIU rd, $0, v when v is the sign extension of
\* its lower half, and as LUI $1, hi16 ; ORI rd, $1, lo16 otherwise, 4 bytes
\* a word; and the processor that executes the words has v in rd.
C27_LoadImmediate ==
    (last.kind = "line" /\ last.st.mnemonic = "li") =>
        /\ LoadsImmediate(WordsWritten, last.st.operand_list[1].reg,
                          last.st.operand_list[2].integer)
        /\ \A i \in 1 .. Len(asm.writes) : Len(asm.writes[i].bytes) = 4

\* li of a value with a nonzero upper half and bit 15 clear in the lower
\* half, which is not a sign extension, has been written as two words
C27_Witness ==
    /\ last.kind = "line"
    /\ last.st.mnemonic = "li"
    /\ last.st.operand_list[2].integer = <<65535, 32767>>
    /\ Len(asm.writes) = 2
    /\ LoadsImmediate(WordsWritten, last.st.operand_list[1].reg, <<65535, 32767>>)


\* the run is over: main has returned or the process was killed; at the
\* grain of characters, get_next_token has returned TOK_NULL
Terminated ==
    \/ phase \in {"exit", "crashed"}
    \/ (phase = "scan" /\ scanner.token = "TOK_NULL")

\* a call of get_next_token moves the stream forward, or returns TOK_NULL at
\* the end of the stream; a call of instruction_cfg starts at a token and
\* reads a line; a pop starts at TOK_NULL and removes one tokenizer
ConsumesToken ==
    /\ last'.kind = "token" =>
         \/ scanner'.pos > scanner.pos
         \/ (scanner'.token = "TOK_NULL" /\ scanner.pos > Len(scanner.file))
    /\ last'.kind = "line" =>
         (asm.lookahead \in {"TOK_LINE", "TOK_EOL"} /\ nlines' = nlines + 1)
    /\ last'.kind = "pop" =>
         (asm.lookahead = "TOK_NULL" /\ asm'.tokenizer_list = asm.tokenizer_list - 1)

\* no record is replayed twice
ReplayedOnce ==
    \A i, j \in 1 .. Len(history.replayed) :
        history.replayed[i] = history.replayed[j] => i = j

TouchedSymbols == {asm.decl_symlist[i] : i \in 1 .. Len(asm.decl_symlist)}

\* the addresses that the deferred statement of record `node' reserved: from
\* its snapshot cursor, after the bytes .word skips to a multiple of four,
\* to the cursor the statement left
ReservedRange(node) ==
    {<<node.segment, Add32(node.offset, <<0, i>>)>> :
        i \in Padding(node) .. (history.reserved[node.id] - 1)}

\* C29: every symbol that is undefined or has a pending record is on
\* decl_symlist, and when the status that is returned is ok, every address
\* that a deferred statement reserved has been written by the replay.
C29_NoDeferredWorkLost ==
    /\ \A k \in DOMAIN asm.symbol_table :
         (\/ asm.symbol_table[k].status = SYMBOL_UNDEFINED
          \/ asm.symbol_table[k].instr_list # <<>>) => k \in TouchedSymbols
    /\ (phase \in {"done", "exit"} /\ asm.status = ASSEMBLER_STATUS_OK) =>
         \A node \in history.deferred : ReservedRange(node) \subseteq history.rewritten

\* the status returned is ok after a .word of a constant and a label was
\* deferred at a cursor that is not a multiple of four
C29_Witness ==
    /\ phase = "done"
    /\ asm.status = ASSEMBLER_STATUS_OK
    /\ \E node \in history.deferred :
         /\ node.mnemonic = ".word"
         /\ Padding(node) = 3
         /\ Cardinality(ReservedRange(node)) = 8


\* C30: during the parsing pass no statement leaves a segment's cursor below
\* where it found it, and no statement writes at an address that an earlier
\* statement of the pass wrote.
C30_CursorNeverDecreases ==
    [][last'.kind = "line" =>
         /\ \A s \in Segments : Le32(asm.segment_offset[s], asm'.segment_offset[s])
         /\ Addresses(asm'.writes) \cap history.written = {}]_vars


=============================================================================
